---- MODULE Spec2Model ----
(***************************************************************************)
(* Verification model of the lol-crawler coordination core:                *)
(*   rate_limiter/token_bucket.rs  TokenBucket (lazy refill)               *)
(*   rate_limiter/limiter.rs       RateLimiter (four limit classes)        *)
(*   api/client.rs, api/error.rs   RiotApiClient request / retry loop      *)
(* Time is a discrete clock `now`; one tick is the unit in which the       *)
(* refill intervals, sleeps and back-off delays of a specification are     *)
(* measured.                                                               *)
(***************************************************************************)
EXTENDS Integers, Sequences, FiniteSets, TLC

VARIABLES
    now,        \* the monotonic clock (Instant::now())
    bucket,     \* SpecBucket: the TokenBucket under test
    acq,        \* SpecBucket: position of an in-flight acquire(n) call
    grants,     \* SpecWindow: history, grants[t] = successful try_acquire(1) calls at time t
    ret,        \* SpecBucket: the last call and what it returned
    config,     \* RateLimitConfig of the RateLimiter
    limiter,    \* the RateLimiter: two application buckets and the two bucket maps
    lcall,      \* the last call made on the RateLimiter, its arguments and result
    permits,    \* history: the times at which try_acquire_all returned true
    advertised, \* history: the per-second application limits the headers advertised
    advances,   \* how many times the clock has been advanced
    permit,     \* the acquire_permit call in flight: position, attempts, sleeps
    req,        \* the make_request_with_retry call in flight of the RiotApiClient
    audit,      \* the api_calls table: rows written, and the last row
    queue,      \* the SummonerQueue: its three bands
    qcall,      \* the pop and push_batch calls in flight on the SummonerQueue
    qhist,      \* history: the tasks pushed and the results the pops returned
    engine,     \* the crawler task of the CrawlerEngine: its position, its locals, and
                \* the history of the tasks created, their failures and requeues
    store,      \* the Database: the rows of its tables and the autoincrement counters
    shist,      \* history: the last two calls made on the Database
    worker,     \* the process_summoner call in flight of the CrawlerWorker
    life,       \* the running flag of the CrawlerEngine, its start calls and its loops
    boot,       \* the environment read by Config::from_env and what it returned
    locks       \* SpecLocks: the guards held and awaited on the band, bucket and
                \* connection locks by the calls in flight

bucketVars == <<bucket, acq, grants, ret>>
limiterVars == <<config, limiter, lcall, permits, advertised, advances, permit>>
clientVars == <<req, audit>>
queueVars == <<queue, qcall, qhist, engine>>
crawlVars == <<store, shist, worker, life, boot, locks>>
vars == <<now, bucketVars, limiterVars, clientVars, queueVars, crawlVars>>

\* ------------------------------------------------------------------------
\* Bounds
\* ------------------------------------------------------------------------
MaxNow == 7          \* SpecBucket: clock horizon, in ticks
MaxCap == 2          \* SpecBucket: largest capacity drawn
MaxRate == 2         \* SpecBucket: largest refill rate drawn
MaxInterval == 3     \* SpecBucket: largest refill interval drawn, in ticks
MaxWindowNow == 5    \* SpecWindow: clock horizon, in ticks
MaxTake == 2         \* SpecBucket: largest n of try_acquire(n) / acquire(n)

\* capacity, tokens and refill_rate are u32 and wrap at 2^32 in a release build.
\* TLC integers end at 2^31 - 1, so the model wraps the same operations at 2^16.
U32 == 2^16

Min(a, b) == IF a <= b THEN a ELSE b

\* ------------------------------------------------------------------------
\* TokenBucket (src/src/rate_limiter/token_bucket.rs)
\* ------------------------------------------------------------------------

\* TokenBucket::new: a full bucket stamped with the current instant.
NewBucket(capacity, refill_rate, refill_interval, t) ==
    [capacity |-> capacity, tokens |-> capacity, refill_rate |-> refill_rate,
     refill_interval |-> refill_interval, last_refill |-> t]

\* Mutant of refill: the clamp to capacity is forgotten.
RefillNoClamp(b, t) ==
    LET elapsed == t - b.last_refill IN
    IF elapsed >= b.refill_interval
    THEN [b EXCEPT !.tokens = (b.tokens + (elapsed \div b.refill_interval) * b.refill_rate) % U32,
                   !.last_refill = t]
    ELSE b

\* Mutant of refill: last_refill is not advanced, so the same elapsed time is
\* awarded again at the next access.
RefillNoStamp(b, t) ==
    LET elapsed == t - b.last_refill IN
    IF elapsed >= b.refill_interval
    THEN [b EXCEPT !.tokens = Min((b.tokens + (elapsed \div b.refill_interval) * b.refill_rate) % U32,
                                  b.capacity)]
    ELSE b

\* refill that stamps last_refill also when less than an interval has passed.
RefillEager(b, t) ==
    [b EXCEPT !.tokens = Min((b.tokens + ((t - b.last_refill) \div b.refill_interval) * b.refill_rate) % U32,
                             b.capacity),
              !.last_refill = t]

\* TokenBucket::refill: whole intervals only; u32 arithmetic wraps (release build).
Refill(b, t) ==
    LET elapsed == t - b.last_refill IN
    IF elapsed >= b.refill_interval
    THEN LET intervals_passed == elapsed \div b.refill_interval
             tokens_to_add == ((intervals_passed % U32) * b.refill_rate) % U32
         IN [b EXCEPT !.tokens = Min((b.tokens + tokens_to_add) % U32, b.capacity),
                      !.last_refill = t]
    ELSE b

\* try_acquire that empties the bucket when it refuses.
TryAcquireDrain(b, n, t) ==
    IF Refill(b, t).tokens >= n
    THEN [bucket |-> [Refill(b, t) EXCEPT !.tokens = @ - n], ok |-> TRUE]
    ELSE [bucket |-> [Refill(b, t) EXCEPT !.tokens = 0], ok |-> FALSE]

\* TokenBucket::try_acquire: refill, then take n or refuse.
TryAcquire(b, n, t) ==
    LET r == Refill(b, t) IN
    IF r.tokens >= n
    THEN [bucket |-> [r EXCEPT !.tokens = r.tokens - n], ok |-> TRUE]
    ELSE [bucket |-> r, ok |-> FALSE]

\* TokenBucket::available_tokens: refill, then read.
AvailableTokens(b, t) == Refill(b, t)

\* u32::div_ceil
DivCeil(a, b) == (a + b - 1) \div b

\* calculate_wait_time with the division rounded down.
CalculateWaitTimeFloor(b, tokens_needed) ==
    (tokens_needed \div b.refill_rate) * b.refill_interval

\* TokenBucket::calculate_wait_time (refill_rate >= 1; a zero rate divides by zero).
CalculateWaitTime(b, tokens_needed) ==
    DivCeil(tokens_needed, b.refill_rate) * b.refill_interval

\* ------------------------------------------------------------------------
\* Text: a string is a sequence of one-character strings
\* ------------------------------------------------------------------------

\* str::split(sep): the pieces between the separators ("" gives one empty piece).
RECURSIVE Split(_, _)
Split(s, sep) ==
    IF \A i \in 1..Len(s) : s[i] # sep
    THEN <<s>>
    ELSE LET i == CHOOSE k \in 1..Len(s) : s[k] = sep /\ \A j \in 1..(k - 1) : s[j] # sep
         IN <<SubSeq(s, 1, i - 1)>> \o Split(SubSeq(s, i + 1, Len(s)), sep)

\* str::split_once(sep): split at the first separator, none without one.
SplitOnce(s, sep) ==
    IF \A i \in 1..Len(s) : s[i] # sep
    THEN [found |-> FALSE, left |-> <<>>, right |-> <<>>]
    ELSE LET i == CHOOSE k \in 1..Len(s) : s[k] = sep /\ \A j \in 1..(k - 1) : s[j] # sep
         IN [found |-> TRUE, left |-> SubSeq(s, 1, i - 1), right |-> SubSeq(s, i + 1, Len(s))]

Digits == <<"0", "1", "2", "3", "4", "5", "6", "7", "8", "9">>

IsDigit(c) == \E d \in 1..10 : Digits[d] = c

DigitValue(c) == (CHOOSE d \in 1..10 : Digits[d] = c) - 1

RECURSIVE DigitsValue(_)
DigitsValue(s) ==
    IF s = <<>> THEN 0
    ELSE DigitsValue(SubSeq(s, 1, Len(s) - 1)) * 10 + DigitValue(s[Len(s)])

\* str::parse::<u32>() / parse::<u64>(): decimal digits after an optional '+';
\* -1 stands for Err (empty, a sign alone, or any other character).
ParseUnsigned(s) ==
    LET body == IF s # <<>> /\ s[1] = "+" THEN Tail(s) ELSE s IN
    IF body = <<>> \/ \E i \in 1..Len(body) : ~IsDigit(body[i])
    THEN -1
    ELSE DigitsValue(body)

\* One "count:window" pair of a limit header, as the three parsers read it.
ParseLimitPair(limit_pair) ==
    LET sp == SplitOnce(limit_pair, ":")
        count == ParseUnsigned(sp.left)
        window == ParseUnsigned(sp.right)
    IN IF sp.found /\ count >= 0 /\ window >= 0
       THEN [ok |-> TRUE, count |-> count, window |-> window]
       ELSE [ok |-> FALSE, count |-> 0, window |-> 0]

\* ------------------------------------------------------------------------
\* RateLimiter (src/src/rate_limiter/limiter.rs)
\* ------------------------------------------------------------------------
SecondMs == 1000           \* Duration::from_secs(1), in ms
TwoMinutesMs == 120000     \* Duration::from_secs(120), in ms
DefaultMethodLimit == 20   \* get_or_create_method_limiter
DefaultServiceLimit == 100 \* get_or_create_service_limiter

\* TokenBucket::per_second
PerSecond(capacity, rate, t) == NewBucket(capacity, rate, SecondMs, t)

\* TokenBucket::per_two_minutes
PerTwoMinutes(capacity, rate, t) == NewBucket(capacity, rate, TwoMinutesMs, t)

\* RateLimiter::new
NewLimiter(cfg, t) ==
    [application_limiter_per_second |->
        PerSecond(cfg.application_limit_per_second, cfg.application_limit_per_second, t),
     application_limiter_per_two_minutes |->
        PerTwoMinutes(cfg.application_limit_per_two_minutes,
                      cfg.application_limit_per_two_minutes, t),
     method_limiters |-> <<>>,
     service_limiters |-> <<>>]

\* A DashMap as a function from the keys present; put inserts or overwrites.
MapPut(m, k, v) == [x \in DOMAIN m \cup {k} |-> IF x = k THEN v ELSE m[x]]

\* Mutant of the bucket keys: the region is left out of the key.
KeyOfNoRegion(a, b) == a

\* format!("{}:{}", a, b)
KeyOf(a, b) == a \o <<":">> \o b

\* RateLimiter::extract_service_from_endpoint: the third piece of the path.
ExtractServiceFromEndpoint(endpoint) ==
    LET parts == Split(endpoint, "/") IN
    IF Len(parts) >= 3 THEN parts[3] ELSE <<"u", "n", "k", "n", "o", "w", "n">>

\* RateLimiter::get_or_create_method_limiter: the map after entry().or_insert_with()
GetOrCreateMethodLimiter(rl, method_key, t) ==
    IF method_key \in DOMAIN rl.method_limiters
    THEN rl
    ELSE [rl EXCEPT !.method_limiters =
            MapPut(@, method_key, PerSecond(DefaultMethodLimit, DefaultMethodLimit, t))]

\* RateLimiter::get_or_create_service_limiter
GetOrCreateServiceLimiter(rl, service, region, t) ==
    LET service_key == KeyOf(service, region) IN
    IF service_key \in DOMAIN rl.service_limiters
    THEN rl
    ELSE [rl EXCEPT !.service_limiters =
            MapPut(@, service_key, PerSecond(DefaultServiceLimit, DefaultServiceLimit, t))]

\* try_acquire_all returns Ok(false): the bucket that refused is named.
Refused(rl, where) == [limiter |-> rl, ok |-> FALSE, refused |-> where]

\* try_acquire_all, the service bucket has answered c: the last of the chain
ServiceAsked(rl, service_key, c) ==
    IF ~c.ok
    THEN Refused([rl EXCEPT !.service_limiters[service_key] = c.bucket], "service")
    ELSE [limiter |-> [rl EXCEPT !.service_limiters[service_key] = c.bucket],
          ok |-> TRUE, refused |-> "none"]

\* try_acquire_all, service bucket: the bucket of (service, region) is there
AskService(rl, service_key, t) ==
    ServiceAsked(rl, service_key, TryAcquire(rl.service_limiters[service_key], 1, t))

\* try_acquire_all, the method bucket has answered m
MethodAsked(rl, method_key, m, endpoint, region, t) ==
    IF ~m.ok
    THEN Refused([rl EXCEPT !.method_limiters[method_key] = m.bucket], "method")
    ELSE AskService(GetOrCreateServiceLimiter(
                        [rl EXCEPT !.method_limiters[method_key] = m.bucket],
                        ExtractServiceFromEndpoint(endpoint), region, t),
                    KeyOf(ExtractServiceFromEndpoint(endpoint), region), t)

\* try_acquire_all, method bucket: the bucket of method_key is there
AskMethod(rl, method_key, endpoint, region, t) ==
    MethodAsked(rl, method_key, TryAcquire(rl.method_limiters[method_key], 1, t),
                endpoint, region, t)

\* try_acquire_all, the two-minute application bucket has answered b
AppPerTwoMinutesAsked(rl, b, endpoint, region, t) ==
    IF ~b.ok
    THEN Refused([rl EXCEPT !.application_limiter_per_two_minutes = b.bucket],
                 "app_per_two_minutes")
    ELSE AskMethod(GetOrCreateMethodLimiter(
                       [rl EXCEPT !.application_limiter_per_two_minutes = b.bucket],
                       KeyOf(endpoint, region), t),
                   KeyOf(endpoint, region), endpoint, region, t)

\* try_acquire_all, the per-second application bucket has answered a
AppPerSecondAsked(rl, a, endpoint, region, t) ==
    IF ~a.ok
    THEN Refused([rl EXCEPT !.application_limiter_per_second = a.bucket], "app_per_second")
    ELSE AppPerTwoMinutesAsked(
             [rl EXCEPT !.application_limiter_per_second = a.bucket],
             TryAcquire(rl.application_limiter_per_two_minutes, 1, t),
             endpoint, region, t)

\* What a refund would do to the result res of try_acquire_all: a refusal gives
\* back the tokens taken from the buckets asked before the one that refused.
GiveBack(res, method_key) ==
    CASE res.refused = "app_per_two_minutes" ->
           [res EXCEPT !.limiter.application_limiter_per_second.tokens = @ + 1]
      [] res.refused = "method" ->
           [res EXCEPT !.limiter.application_limiter_per_second.tokens = @ + 1,
                       !.limiter.application_limiter_per_two_minutes.tokens = @ + 1]
      [] res.refused = "service" ->
           [res EXCEPT !.limiter.application_limiter_per_second.tokens = @ + 1,
                       !.limiter.application_limiter_per_two_minutes.tokens = @ + 1,
                       !.limiter.method_limiters[method_key].tokens = @ + 1]
      [] OTHER -> res

\* Mutant of try_acquire_all: a refusal gives back the tokens taken earlier in
\* the chain.
TryAcquireAllRefund(rl, endpoint, region, t) ==
    GiveBack(AppPerSecondAsked(rl, TryAcquire(rl.application_limiter_per_second, 1, t),
                               endpoint, region, t),
             KeyOf(endpoint, region))

\* RateLimiter::try_acquire_all: one token from each bucket of the chain, in
\* order; the first refusal returns false and keeps what was taken before it.
TryAcquireAll(rl, endpoint, region, t) ==
    AppPerSecondAsked(rl, TryAcquire(rl.application_limiter_per_second, 1, t),
                      endpoint, region, t)

\* Mutant of parse_and_update_app_limits: the new limit becomes the capacity,
\* but the tokens already spent stay spent.
ParseAndUpdateAppLimitsKeepTokens(rl, limit_str, t) ==
    LET pairs == Split(limit_str, ",")
        Apply(acc, i) ==
            LET p == ParseLimitPair(pairs[i]) IN
            IF p.ok /\ p.window = 1
            THEN [acc EXCEPT !.application_limiter_per_second =
                    [PerSecond(p.count, p.count, t) EXCEPT
                        !.tokens = Min(p.count, acc.application_limiter_per_second.tokens)]]
            ELSE IF p.ok /\ p.window = 120
            THEN [acc EXCEPT !.application_limiter_per_two_minutes =
                    [PerTwoMinutes(p.count, p.count, t) EXCEPT
                        !.tokens = Min(p.count, acc.application_limiter_per_two_minutes.tokens)]]
            ELSE acc
        F[i \in 0..Len(pairs)] == IF i = 0 THEN rl ELSE Apply(F[i - 1], i)
    IN F[Len(pairs)]

\* RateLimiter::parse_and_update_app_limits: every well-formed pair with window 1
\* (120) replaces the per-second (per-two-minutes) bucket by a full one.
ParseAndUpdateAppLimits(rl, limit_str, t) ==
    LET pairs == Split(limit_str, ",")
        Apply(acc, i) ==
            LET p == ParseLimitPair(pairs[i]) IN
            IF p.ok /\ p.window = 1
            THEN [acc EXCEPT !.application_limiter_per_second = PerSecond(p.count, p.count, t)]
            ELSE IF p.ok /\ p.window = 120
            THEN [acc EXCEPT !.application_limiter_per_two_minutes =
                    PerTwoMinutes(p.count, p.count, t)]
            ELSE acc
        F[i \in 0..Len(pairs)] == IF i = 0 THEN rl ELSE Apply(F[i - 1], i)
    IN F[Len(pairs)]

\* The first well-formed pair with window 1 of a method or service header
\* (the loops break there), 0 if there is none.
FirstPerSecondPair(limit_str) ==
    LET pairs == Split(limit_str, ",")
        parsed == [i \in 1..Len(pairs) |-> ParseLimitPair(pairs[i])]
        hits == {i \in 1..Len(pairs) : parsed[i].ok /\ parsed[i].window = 1}
    IN IF hits = {} THEN [found |-> FALSE, count |-> 0]
       ELSE [found |-> TRUE,
             count |-> parsed[CHOOSE i \in hits : \A j \in hits : i <= j].count]

\* RateLimiter::parse_and_update_method_limits
ParseAndUpdateMethodLimits(rl, endpoint, region, limit_str, t) ==
    LET method_key == KeyOf(endpoint, region)
        rl0 == GetOrCreateMethodLimiter(rl, method_key, t)
        p == FirstPerSecondPair(limit_str)
    IN IF ~p.found THEN rl0
       ELSE [rl0 EXCEPT !.method_limiters[method_key] = PerSecond(p.count, p.count, t)]

\* RateLimiter::parse_and_update_service_limits
ParseAndUpdateServiceLimits(rl, service, region, limit_str, t) ==
    LET service_key == KeyOf(service, region)
        rl0 == GetOrCreateServiceLimiter(rl, service, region, t)
        p == FirstPerSecondPair(limit_str)
    IN IF ~p.found THEN rl0
       ELSE [rl0 EXCEPT !.service_limiters[service_key] = PerSecond(p.count, p.count, t)]

\* A HeaderMap is a function from the header names present to their values.
HdrApp == "X-App-Rate-Limit"
HdrMethod == "X-Method-Rate-Limit"
HdrService == "X-Service-Rate-Limit"

\* RateLimiter::update_limits_from_headers: application, then method, then service.
UpdateLimitsFromHeaders(rl, endpoint, region, headers, t) ==
    LET rl1 == IF HdrApp \in DOMAIN headers
               THEN ParseAndUpdateAppLimits(rl, headers[HdrApp], t) ELSE rl
        rl2 == IF HdrMethod \in DOMAIN headers
               THEN ParseAndUpdateMethodLimits(rl1, endpoint, region, headers[HdrMethod], t)
               ELSE rl1
        rl3 == IF HdrService \in DOMAIN headers
               THEN ParseAndUpdateServiceLimits(rl2, ExtractServiceFromEndpoint(endpoint),
                                                region, headers[HdrService], t)
               ELSE rl2
    IN rl3

\* ------------------------------------------------------------------------
\* Inputs of the RateLimiter specifications
\* ------------------------------------------------------------------------
MaxCalls == 3        \* SpecLimiter: calls made on the RateLimiter in one behaviour
MaxAdvances == 1     \* SpecLimiter: clock advances in one behaviour

\* Config::default (rate_limits)
DefaultConfig ==
    [application_limit_per_second |-> 20, application_limit_per_two_minutes |-> 100,
     retry_delay_ms |-> 1000, max_retries |-> 3]

\* Endpoints and regions the calls name: two endpoints of the match service, one
\* of the summoner service; two regions.
\* (the paths are /l/m/a, /l/m/b and /l/s/a: short, for the same three pieces
\* that /lol/match/..., /lol/summoner/... split into)
EpMatchA == <<"/", "l", "/", "m", "/", "a">>
EpMatchB == <<"/", "l", "/", "m", "/", "b">>
EpSummoner == <<"/", "l", "/", "s", "/", "a">>
Na1 == <<"n", "a", "1">>
Kr == <<"k", "r">>

\* Beside each (endpoint, region): the service the endpoint belongs to.
Targets ==
    << [endpoint |-> EpMatchA, region |-> Na1, service |-> "match"],
       [endpoint |-> EpMatchB, region |-> Na1, service |-> "match"],
       [endpoint |-> EpSummoner, region |-> Na1, service |-> "summoner"],
       [endpoint |-> EpMatchA, region |-> Kr, service |-> "match"] >>

\* Response headers the upstream sends. Beside each HeaderMap: the limit it
\* advertises for the per-second and per-two-minutes application windows and for
\* the per-second method and service windows (-1: none).
HeaderCases ==
    << [headers |-> <<>>,
        app_sec |-> -1, app_two_min |-> -1, method_sec |-> -1, service_sec |-> -1],
       \* X-App-Rate-Limit: 1:1,3:120
       [headers |-> (HdrApp :> <<"1", ":", "1", ",", "3", ":", "1", "2", "0">>),
        app_sec |-> 1, app_two_min |-> 3, method_sec |-> -1, service_sec |-> -1],
       \* X-App-Rate-Limit: 2:1,3:120
       [headers |-> (HdrApp :> <<"2", ":", "1", ",", "3", ":", "1", "2", "0">>),
        app_sec |-> 2, app_two_min |-> 3, method_sec |-> -1, service_sec |-> -1],
       \* X-Method-Rate-Limit: 5:120,1:1   X-Service-Rate-Limit: 0:1
       [headers |-> (HdrMethod :> <<"5", ":", "1", "2", "0", ",", "1", ":", "1">>)
                    @@ (HdrService :> <<"0", ":", "1">>),
        app_sec |-> -1, app_two_min |-> -1, method_sec |-> 1, service_sec |-> 0],
       \* X-App-Rate-Limit: 9:60,2;1   X-Method-Rate-Limit: x:1   X-Service-Rate-Limit: 1:
       [headers |-> (HdrApp :> <<"9", ":", "6", "0", ",", "2", ";", "1">>)
                    @@ (HdrMethod :> <<"x", ":", "1">>)
                    @@ (HdrService :> <<"1", ":">>),
        app_sec |-> -1, app_two_min |-> -1, method_sec |-> -1, service_sec |-> -1] >>

\* The (target, header case) pairs the update calls of SpecLimiter draw from: the
\* method and service headers from every target, the application header (whose
\* effect does not depend on the target) and the ill-formed ones from one.
UpdateInputs == {<<1, 2>>, <<1, 4>>, <<2, 4>>, <<3, 4>>, <<4, 4>>, <<4, 5>>}

\* The header cases the update calls of SpecRetune draw from.
RetuneCases == {2, 3}

\* No acquire_permit call has been made.
NoPermit ==
    [pc |-> "idle", target |-> 0, retry_count |-> 0, wake |-> 0,
     results |-> <<>>, sleeps |-> <<>>, times |-> <<>>]

\* An error of the client, ApiError: its variant, and the fields of the variants
\* that have some (0 and "" elsewhere).
Err(kind) == [kind |-> kind, status |-> 0, message |-> "", cause |-> ""]

\* No value yet: make_request has not returned.
NoResult == Err("none")

\* No make_request_with_retry call has been made.
NoRequest ==
    [id |-> 0, pc |-> "idle", url |-> 0, retries |-> 0, calls |-> 0, sends |-> 0,
     status |-> -1, body |-> "", outcome |-> NoResult, asked |-> FALSE,
     retryable |-> FALSE, result |-> NoResult, wake |-> 0, delays |-> <<>>,
     first |-> -1, only_retryable |-> TRUE, times |-> <<>>, trace |-> <<>>,
     retry_after |-> -1, count |-> <<>>, hcase |-> 0]

\* The api_calls table is empty.
NoAudit == [rows |-> 0, last |-> [endpoint |-> <<>>, region |-> <<>>,
                                  response_code |-> 0, rate_limit_remaining |-> -1]]

\* Option<SummonerTask>::None.
NoTask == [puuid |-> "", region |-> <<>>, priority |-> "none", retries |-> 0, added_at |-> 0]

\* SummonerQueue::new(): three empty bands.
NewQueue == [high_priority |-> <<>>, medium_priority |-> <<>>, low_priority |-> <<>>]

\* The tasks that call pop concurrently.
Poppers == {1, 2}

\* No pop and no push_batch call is in flight.
NoQueueCalls ==
    [pop |-> [p \in Poppers |-> "idle"],
     batch |-> [pc |-> "idle", high |-> <<>>, medium |-> <<>>, low |-> <<>>]]

\* No size(), total_size(), is_empty() or peek_next() result.
NoRead == [size |-> <<0, 0, 0>>, total_size |-> 0, is_empty |-> TRUE, peek_next |-> "none"]

\* Nothing has been pushed and nothing popped.
NoQueueHistory ==
    [pushed |-> <<>>, popped |-> <<>>, nones |-> 0, phase |-> "pushing",
     last |-> [op |-> "new", task |-> NoTask, before |-> NewQueue, read |-> NoRead]]

\* The crawler task before its first iteration (processed_count = 0).
NewEngine ==
    [pc |-> "idle", task |-> NoTask, processed_count |-> 0,
     created |-> <<>>, failures |-> <<>>, requeues |-> <<>>,
     last |-> [outcome |-> "none", task |-> NoTask, before |-> NewQueue]]

\* The SummonerQueue and the crawler task take no part in the specifications
\* of the rate limiter and of the client.
QueueUnused ==
    /\ queue = NewQueue
    /\ qcall = NoQueueCalls
    /\ qhist = NoQueueHistory
    /\ engine = NewEngine

\* Database::new on a new file: the schema with no rows.
NewStore ==
    [summoners |-> {}, matches |-> {}, teams |-> {}, participants |-> {}, bans |-> {},
     seq |-> [teams |-> 0, participants |-> 0, bans |-> 0]]

\* No call made on the Database.
NoStoreCall == [op |-> "none", row |-> <<>>, ok |-> TRUE, count |-> 0]

NoStoreHistory == [last |-> NoStoreCall, prev |-> NoStoreCall, calls |-> 0]

\* No process_summoner call is in flight.
NoWorker ==
    [pc |-> "idle", calls |-> 0, task |-> NoTask, match_ids |-> <<>>, i |-> 0,
     new_summoners |-> {}, ingested |-> {}, failed |-> {}, unchecked |-> {},
     result |-> [kind |-> "none", tasks |-> <<>>]]

\* The tasks that call start() on one CrawlerEngine.
Callers == {1, 2}

\* The four futures that start() joins.
Loops == {"featured_games", "crawler", "health_check", "state_save"}

\* CrawlerEngine::new: running is false, no start call, no loop.
NewLife ==
    [running |-> FALSE, start |-> [c \in Callers |-> "idle"],
     loops |-> [c \in Callers |-> [l \in Loops |-> "none"]],
     skipped |-> {}, stops |-> 0, pushed |-> <<>>, popped |-> 0]

\* Config::from_env has not been called.
NoBoot == [env |-> <<>>, called |-> FALSE, ok |-> FALSE, error |-> "", config |-> <<>>]

\* The tasks that call into the RateLimiter, the SummonerQueue and the Database.
Lockers == {1, 2}

\* The RwLocks of the three bands and of the four buckets a call works on, and
\* the Mutex of the Database connection.
BandLocks == <<"high_priority", "medium_priority", "low_priority">>

BucketLocks == <<"application_limiter_per_second", "application_limiter_per_two_minutes",
                 "method_limiter", "service_limiter">>

LockNames == {BandLocks[k] : k \in 1..3} \cup {BucketLocks[k] : k \in 1..4} \cup {"connection"}

\* No call in flight: every lock free, nobody waiting.
NoLocks ==
    [tasks |-> [t \in Lockers |-> [op |-> "idle", program |-> <<>>, pc |-> 1,
                                   waiting |-> {}, held |-> {}]],
     table |-> [l \in LockNames |-> [writer |-> 0, readers |-> {}, queue |-> <<>>]],
     calls |-> 0]

\* The store, the worker, the engine's lifecycle and the configuration take no
\* part in the specifications of the limiter, the client and the queue.
CrawlUnused ==
    /\ store = NewStore
    /\ shist = NoStoreHistory
    /\ worker = NoWorker
    /\ life = NewLife
    /\ boot = NoBoot
    /\ locks = NoLocks

\* The RiotApiClient takes no part in the specifications of the rate limiter.
ClientUnused ==
    /\ req = NoRequest
    /\ audit = NoAudit

NoCall == [id |-> 0, op |-> "none", target |-> 0, hcase |-> 0, ok |-> TRUE, refused |-> "none"]

\* No acquire(n) call is in flight.
Idle == [pc |-> "idle", n |-> 0, wake |-> 0]

\* The single TokenBucket takes no part in the RateLimiter specifications.
BucketUnused ==
    /\ bucket = NewBucket(0, 0, 1, 0)
    /\ acq = Idle
    /\ grants = <<>>
    /\ ret = [op |-> "new", n |-> 0, ok |-> TRUE]

\* The RateLimiter takes no part in the specifications of a single bucket.
LimiterUnused ==
    /\ config = DefaultConfig
    /\ limiter = NewLimiter(DefaultConfig, 0)
    /\ lcall = NoCall
    /\ permits = <<>>
    /\ advertised = {}
    /\ advances = 0
    /\ permit = NoPermit

\* ------------------------------------------------------------------------
\* SpecBucket: one TokenBucket, its three operations and the passage of time
\* ------------------------------------------------------------------------
InitBucket ==
    /\ now = 0
    /\ CrawlUnused
    /\ \E c \in 0..MaxCap, r \in 0..MaxRate, i \in 1..MaxInterval :
          bucket = NewBucket(c, r, i, 0)
    /\ acq = Idle
    /\ grants = [t \in 0..MaxNow |-> 0]
    /\ ret = [op |-> "new", n |-> 0, ok |-> TRUE]
    /\ LimiterUnused
    /\ ClientUnused
    /\ QueueUnused

\* Time passes (also while an acquire sleeps).
Tick ==
    /\ now < MaxNow
    /\ now' = now + 1
    /\ UNCHANGED <<crawlVars, queueVars, clientVars, bucketVars, limiterVars>>

\* bucket.try_acquire(n)
BucketTryAcquire ==
    /\ acq.pc = "idle"
    /\ \E n \in 1..MaxTake :
          LET res == TryAcquire(bucket, n, now) IN
          /\ bucket' = res.bucket
          /\ ret' = [op |-> "try_acquire", n |-> n, ok |-> res.ok]
    /\ UNCHANGED <<crawlVars, queueVars, clientVars, now, acq, grants, limiterVars>>

\* bucket.available_tokens()
BucketAvailable ==
    /\ acq.pc = "idle"
    /\ bucket' = AvailableTokens(bucket, now)
    /\ ret' = [op |-> "available_tokens", n |-> bucket'.tokens, ok |-> TRUE]
    /\ UNCHANGED <<crawlVars, queueVars, clientVars, now, acq, grants, limiterVars>>

\* bucket.acquire(n), up to the sleep: take at once, or compute the wait and sleep
\* (&mut self: no other call runs on the bucket until acquire returns).
BucketAcquireStart ==
    /\ acq.pc = "idle"
    /\ \E n \in 1..MaxTake :
          LET r == Refill(bucket, now) IN
          IF r.tokens >= n
          THEN /\ bucket' = [r EXCEPT !.tokens = r.tokens - n]
               /\ acq' = Idle
               /\ ret' = [op |-> "acquire", n |-> n, ok |-> TRUE]
          ELSE IF r.refill_rate = 0
          THEN \* div_ceil(0) panics; the refill has been applied
               /\ bucket' = r
               /\ acq' = Idle
               /\ ret' = [op |-> "acquire_panic", n |-> n, ok |-> FALSE]
          ELSE /\ bucket' = r
               /\ acq' = [pc |-> "sleeping", n |-> n,
                          wake |-> now + CalculateWaitTime(r, n - r.tokens)]
               /\ ret' = [op |-> "acquire_sleep", n |-> n, ok |-> FALSE]
    /\ UNCHANGED <<crawlVars, queueVars, clientVars, now, grants, limiterVars>>

\* bucket.acquire(n), after the sleep: refill again, take or fail.
BucketAcquireWake ==
    /\ acq.pc = "sleeping"
    /\ now >= acq.wake
    /\ LET r == Refill(bucket, now) IN
          IF r.tokens >= acq.n
          THEN /\ bucket' = [r EXCEPT !.tokens = r.tokens - acq.n]
               /\ ret' = [op |-> "acquire", n |-> acq.n, ok |-> TRUE]
          ELSE /\ bucket' = r
               /\ ret' = [op |-> "acquire", n |-> acq.n, ok |-> FALSE]
    /\ acq' = Idle
    /\ UNCHANGED <<crawlVars, queueVars, clientVars, now, grants, limiterVars>>

NextBucket ==
    \/ Tick
    \/ BucketTryAcquire
    \/ BucketAvailable
    \/ BucketAcquireStart
    \/ BucketAcquireWake

SpecBucket == InitBucket /\ [][NextBucket]_vars

\* C2: in every reachable state of a TokenBucket driven by try_acquire, acquire and
\* available_tokens calls and the passage of time, 0 <= tokens <= capacity, and no
\* step moves last_refill backwards.
C2_TokensWithinCapacity ==
    /\ [](0 <= bucket.tokens /\ bucket.tokens <= bucket.capacity)
    /\ [][bucket'.last_refill >= bucket.last_refill]_vars

\* C2 witness: an acquire that slept has returned, the bucket has been refilled
\* after time 0 and is neither empty-by-construction nor full.
C2_Witness ==
    /\ ret.op = "acquire" /\ ret.ok
    /\ bucket.last_refill > 0
    /\ bucket.capacity = MaxCap /\ bucket.tokens < bucket.capacity

\* ------------------------------------------------------------------------
\* SpecWindow: sequences of try_acquire(1) calls on one bucket, with the
\* history of the successful ones
\* ------------------------------------------------------------------------
InitWindow ==
    /\ now = 0
    /\ CrawlUnused
    /\ \E c \in 0..MaxCap, r \in 0..MaxRate, i \in 1..MaxInterval :
          bucket = NewBucket(c, r, i, 0)
    /\ acq = Idle
    /\ grants = [t \in 0..MaxWindowNow |-> 0]
    /\ ret = [op |-> "new", n |-> 0, ok |-> TRUE]
    /\ LimiterUnused
    /\ ClientUnused
    /\ QueueUnused

WindowTick ==
    /\ now < MaxWindowNow
    /\ now' = now + 1
    /\ UNCHANGED <<crawlVars, queueVars, clientVars, bucketVars, limiterVars>>

\* bucket.try_acquire(1), recorded in the history when it succeeds
WindowTryAcquire ==
    /\ LET res == TryAcquire(bucket, 1, now) IN
          /\ bucket' = res.bucket
          /\ ret' = [op |-> "try_acquire", n |-> 1, ok |-> res.ok]
          /\ grants' = IF res.ok THEN [grants EXCEPT ![now] = @ + 1] ELSE grants
    /\ UNCHANGED <<crawlVars, queueVars, clientVars, now, acq, limiterVars>>

NextWindow ==
    \/ WindowTick
    \/ WindowTryAcquire

SpecWindow == InitWindow /\ [][NextWindow]_vars

\* Successful try_acquire(1) calls at the times a..b (clipped to the horizon).
RECURSIVE SumGrants(_, _)
SumGrants(a, b) ==
    IF a > b \/ a > MaxWindowNow THEN 0 ELSE grants[a] + SumGrants(a + 1, b)

\* A window of length w that starts at time a holds the times a .. a + w - 1.
InWindow(a, w) == SumGrants(a, a + w - 1)

\* C3 as stated: successes in any window of length W <= I never exceed C.
C3_Original ==
    \A a \in 0..MaxWindowNow, w \in 1..bucket.refill_interval :
        InWindow(a, w) <= bucket.capacity

\* C3 (amended): successes in any window of length W <= I never exceed
\* C + min(R, C): at most one refill falls inside such a window.
C3_WindowWithinInterval ==
    \A a \in 0..MaxWindowNow, w \in 1..bucket.refill_interval :
        InWindow(a, w) <= bucket.capacity + Min(bucket.refill_rate, bucket.capacity)

\* C3 witness: a window shorter than the interval that holds C + min(R, C)
\* successes, more than C.
C3_Witness ==
    /\ bucket.capacity >= 1 /\ bucket.refill_rate >= 1 /\ bucket.refill_interval >= 2
    /\ \E a \in 0..MaxWindowNow, w \in 1..(bucket.refill_interval - 1) :
          InWindow(a, w) = bucket.capacity + Min(bucket.refill_rate, bucket.capacity)

\* C4: successes in any window of length k * I (k >= 1) never exceed C + k * R.
C4_WindowOfIntervals ==
    \A a \in 0..MaxWindowNow, k \in 1..(MaxWindowNow + 1) :
        InWindow(a, k * bucket.refill_interval) <= bucket.capacity + k * bucket.refill_rate

\* C4 witness: a window of two intervals, inside the horizon, that holds exactly
\* C + 2 * R successes.
C4_Witness ==
    /\ bucket.capacity >= 1 /\ bucket.refill_rate >= 1
    /\ \E a \in 0..MaxWindowNow :
          /\ a + 2 * bucket.refill_interval - 1 <= MaxWindowNow
          /\ InWindow(a, 2 * bucket.refill_interval)
                = bucket.capacity + 2 * bucket.refill_rate


\* ------------------------------------------------------------------------
\* SpecLimiter: calls of try_acquire_all, update_limits_from_headers and
\* get_rate_limit_status on one RateLimiter, and the passage of time
\* ------------------------------------------------------------------------
InitLimiter ==
    /\ now = 0
    /\ CrawlUnused
    /\ BucketUnused
    /\ ClientUnused
    /\ QueueUnused
    /\ \E m \in {1, 3} :
          config = [DefaultConfig EXCEPT !.application_limit_per_second = 2,
                                         !.application_limit_per_two_minutes = m]
    /\ limiter = NewLimiter(config, 0)
    /\ lcall = NoCall
    /\ permits = <<>>
    /\ advertised = {}
    /\ advances = 0
    /\ permit = NoPermit

\* Time passes: a second.
Advance ==
    /\ advances < MaxAdvances
    /\ now' = now + SecondMs
    /\ advances' = advances + 1
    /\ UNCHANGED <<crawlVars, queueVars, clientVars, bucketVars, config, limiter, lcall, permits, advertised, permit>>

\* rate_limiter.try_acquire_all(endpoint, region)
CallTryAcquireAll ==
    /\ lcall.id < MaxCalls
    /\ \E i \in 1..Len(Targets) :
          LET res == TryAcquireAll(limiter, Targets[i].endpoint, Targets[i].region, now) IN
          /\ limiter' = res.limiter
          /\ lcall' = [id |-> lcall.id + 1, op |-> "try_acquire_all", target |-> i,
                       hcase |-> 0, ok |-> res.ok, refused |-> res.refused]
    /\ UNCHANGED <<crawlVars, queueVars, clientVars, now, bucketVars, config, permits, advertised, advances, permit>>

\* rate_limiter.update_limits_from_headers(endpoint, region, headers)
CallUpdateLimitsFromHeaders ==
    /\ lcall.id < MaxCalls
    /\ \E in \in UpdateInputs :
          LET i == in[1]
              h == in[2]
          IN
          /\ limiter' = UpdateLimitsFromHeaders(limiter, Targets[i].endpoint, Targets[i].region,
                                                HeaderCases[h].headers, now)
          /\ lcall' = [id |-> lcall.id + 1, op |-> "update", target |-> i,
                       hcase |-> h, ok |-> TRUE, refused |-> "none"]
    /\ UNCHANGED <<crawlVars, queueVars, clientVars, now, bucketVars, config, permits, advertised, advances, permit>>

\* rate_limiter.get_rate_limit_status(): reads (and so refills) both application buckets
CallGetRateLimitStatus ==
    /\ limiter' = [limiter EXCEPT
          !.application_limiter_per_second = AvailableTokens(@, now),
          !.application_limiter_per_two_minutes = AvailableTokens(@, now)]
    /\ UNCHANGED <<crawlVars, queueVars, clientVars, now, bucketVars, config, lcall, permits, advertised, advances, permit>>

NextLimiter ==
    \/ Advance
    \/ CallTryAcquireAll
    \/ CallUpdateLimitsFromHeaders
    \/ CallGetRateLimitStatus

SpecLimiter == InitLimiter /\ [][NextLimiter]_vars


\* Tokens a bucket offers at the current instant (what available_tokens returns).
Avail(b) == Refill(b, now).tokens

\* The bucket a key names in a bucket map; a key not yet used names no bucket and
\* stands for the full default bucket its first use creates.
NoBucket == [capacity |-> -1, tokens |-> -1, refill_rate |-> -1, refill_interval |-> -1,
             last_refill |-> -1]

BucketAt(m, k) == IF k \in DOMAIN m THEN m[k] ELSE NoBucket

AvailAt(m, k, default) == IF k \in DOMAIN m THEN Avail(m[k]) ELSE default

MethodKeyOf(i) == KeyOf(Targets[i].endpoint, Targets[i].region)

ServiceKeyOf(i) == KeyOf(ExtractServiceFromEndpoint(Targets[i].endpoint), Targets[i].region)

\* C5: try_acquire_all asks the per-second application bucket, the per-two-minutes
\* application bucket, the method bucket and the service bucket in that order; it
\* returns true iff all four grant; at a refusal it returns false, every bucket
\* asked before has lost exactly one token and every bucket after it is unchanged.
C5_ChainOrderNoRefund ==
    [][(lcall'.id = lcall.id + 1 /\ lcall'.op = "try_acquire_all") =>
        LET mk == MethodKeyOf(lcall'.target)
            sk == ServiceKeyOf(lcall'.target)
            r == lcall'.refused
            a1 == Avail(limiter.application_limiter_per_second)
            a2 == Avail(limiter.application_limiter_per_two_minutes)
            am == AvailAt(limiter.method_limiters, mk, DefaultMethodLimit)
            as == AvailAt(limiter.service_limiters, sk, DefaultServiceLimit)
            tookSec == limiter'.application_limiter_per_second.tokens = a1 - 1
            tookTwo == limiter'.application_limiter_per_two_minutes.tokens = a2 - 1
            tookMethod == BucketAt(limiter'.method_limiters, mk).tokens = am - 1
            tookService == BucketAt(limiter'.service_limiters, sk).tokens = as - 1
            sameTwo == limiter'.application_limiter_per_two_minutes
                         = limiter.application_limiter_per_two_minutes
            sameMethod == limiter'.method_limiters = limiter.method_limiters
            sameService == limiter'.service_limiters = limiter.service_limiters
        IN /\ lcall'.ok <=> (a1 >= 1 /\ a2 >= 1 /\ am >= 1 /\ as >= 1)
           /\ lcall'.ok <=> (r = "none")
           /\ r \in {"none", "app_per_second", "app_per_two_minutes", "method", "service"}
           /\ r = "app_per_second" => a1 = 0 /\ sameTwo /\ sameMethod /\ sameService
           /\ r = "app_per_two_minutes" => a2 = 0 /\ tookSec /\ sameMethod /\ sameService
           /\ r = "method" => am = 0 /\ tookSec /\ tookTwo /\ sameService
           /\ r = "service" => as = 0 /\ tookSec /\ tookTwo /\ tookMethod
           /\ r = "none" => tookSec /\ tookTwo /\ tookMethod /\ tookService
      ]_vars

\* C5 witness: the service bucket, last of the chain, has refused a call whose
\* three earlier tokens stay taken.
C5_Witness ==
    /\ lcall.op = "try_acquire_all" /\ lcall.refused = "service"
    /\ limiter.application_limiter_per_second.tokens
         < limiter.application_limiter_per_second.capacity
    /\ BucketAt(limiter.method_limiters, MethodKeyOf(lcall.target)).tokens = 0

\* Successes of a burst of n try_acquire(1) calls on bucket b at time t.
RECURSIVE BurstSuccesses(_, _, _)
BurstSuccesses(b, n, t) ==
    IF n = 0 THEN 0
    ELSE LET r == TryAcquire(b, 1, t) IN
         (IF r.ok THEN 1 ELSE 0) + BurstSuccesses(r.bucket, n - 1, t)

\* A bucket just replaced by the limit c: capacity c, c tokens available, and a
\* burst of c + 1 try_acquire(1) calls gives c successes and one failure.
FreshAt(b, c) ==
    /\ b.capacity = c
    /\ Avail(b) = c
    /\ BurstSuccesses(b, c + 1, now) = c

\* C8: after update_limits_from_headers with an X-App-Rate-Limit value holding the
\* pair c:1 (c:120), the per-second (per-two-minutes) application bucket has
\* capacity c and c available tokens whatever it held before, and a burst of
\* c + 1 try_acquire(1) calls on it gives c successes and 1 failure.
C8_AppLimitReplacedFull ==
    lcall.op = "update" =>
        /\ HeaderCases[lcall.hcase].app_sec >= 0 =>
              FreshAt(limiter.application_limiter_per_second, HeaderCases[lcall.hcase].app_sec)
        /\ HeaderCases[lcall.hcase].app_two_min >= 0 =>
              FreshAt(limiter.application_limiter_per_two_minutes,
                      HeaderCases[lcall.hcase].app_two_min)

\* C8 witness: the limiter started at 2 per second, one permit was granted, then
\* the header 1:1,3:120 arrived.
C8_Witness ==
    /\ lcall.op = "update" /\ lcall.id = 2 /\ HeaderCases[lcall.hcase].app_sec = 1
    /\ config.application_limit_per_second = 2
    /\ \E k \in DOMAIN limiter.service_limiters :
          limiter.service_limiters[k].tokens = DefaultServiceLimit - 1
    /\ limiter.application_limiter_per_second.tokens = 1

\* C9: update_limits_from_headers changes only the buckets it names. The method
\* and service buckets of every other (endpoint, region) and (service, region)
\* stay as they are; an application bucket changes only if the headers advertise
\* its window; a method or service header without a well-formed per-second pair
\* leaves the keyed bucket as it is (a key not used before gets its full default
\* bucket).
C9_HeaderFrame ==
    [][(lcall'.id = lcall.id + 1 /\ lcall'.op = "update") =>
        LET me == lcall'.target
            hc == HeaderCases[lcall'.hcase]
            M(rl, i) == BucketAt(rl.method_limiters, MethodKeyOf(i))
            S(rl, i) == BucketAt(rl.service_limiters, ServiceKeyOf(i))
        IN /\ \A i \in 1..Len(Targets) :
                 (Targets[i].endpoint # Targets[me].endpoint
                    \/ Targets[i].region # Targets[me].region)
                 => M(limiter', i) = M(limiter, i)
           /\ \A i \in 1..Len(Targets) :
                 (Targets[i].service # Targets[me].service
                    \/ Targets[i].region # Targets[me].region)
                 => S(limiter', i) = S(limiter, i)
           /\ hc.app_sec = -1 =>
                 limiter'.application_limiter_per_second
                   = limiter.application_limiter_per_second
           /\ hc.app_two_min = -1 =>
                 limiter'.application_limiter_per_two_minutes
                   = limiter.application_limiter_per_two_minutes
           /\ hc.method_sec = -1 =>
                 \/ M(limiter', me) = M(limiter, me)
                 \/ /\ HdrMethod \in DOMAIN hc.headers
                    /\ M(limiter, me) = NoBucket
                    /\ M(limiter', me) = PerSecond(DefaultMethodLimit, DefaultMethodLimit, now)
           /\ hc.service_sec = -1 =>
                 \/ S(limiter', me) = S(limiter, me)
                 \/ /\ HdrService \in DOMAIN hc.headers
                    /\ S(limiter, me) = NoBucket
                    /\ S(limiter', me) = PerSecond(DefaultServiceLimit, DefaultServiceLimit, now)
      ]_vars

\* C9 witness: a method and a service header arrived for /l/m/a in kr while the
\* buckets of /l/m/a in na1 and the application buckets were partly used.
C9_Witness ==
    /\ lcall.op = "update" /\ lcall.hcase = 4 /\ lcall.target = 4
    /\ BucketAt(limiter.method_limiters, MethodKeyOf(1)).tokens = DefaultMethodLimit - 1
    /\ BucketAt(limiter.service_limiters, ServiceKeyOf(1)).tokens = DefaultServiceLimit - 1
    /\ BucketAt(limiter.method_limiters, MethodKeyOf(4)).capacity = 1
    /\ limiter.application_limiter_per_second.tokens
         < limiter.application_limiter_per_second.capacity


\* ------------------------------------------------------------------------
\* SpecRetune: permits taken from a RateLimiter that re-tunes its application
\* buckets from the X-App-Rate-Limit header of the responses
\* ------------------------------------------------------------------------
MaxRetuneCalls == 5      \* SpecRetune: calls made on the RateLimiter
MaxRetuneAdvances == 2   \* SpecRetune: clock advances (half a second each)

InitRetune ==
    /\ now = 0
    /\ CrawlUnused
    /\ BucketUnused
    /\ ClientUnused
    /\ QueueUnused
    /\ \E c \in {1, 2} :
          config = [DefaultConfig EXCEPT !.application_limit_per_second = c,
                                         !.application_limit_per_two_minutes = 3]
    /\ limiter = NewLimiter(config, 0)
    /\ lcall = NoCall
    /\ permits = <<>>
    /\ advertised = {}
    /\ advances = 0
    /\ permit = NoPermit

RetuneAdvance ==
    /\ advances < MaxRetuneAdvances
    /\ now' = now + SecondMs \div 2
    /\ advances' = advances + 1
    /\ UNCHANGED <<crawlVars, queueVars, clientVars, bucketVars, config, limiter, lcall, permits, advertised, permit>>

\* rate_limiter.try_acquire_all("/l/m/a", "na1"); a permit granted is recorded
RetuneTryAcquireAll ==
    /\ lcall.id < MaxRetuneCalls
    /\ LET res == TryAcquireAll(limiter, Targets[1].endpoint, Targets[1].region, now) IN
          /\ limiter' = res.limiter
          /\ lcall' = [id |-> lcall.id + 1, op |-> "try_acquire_all", target |-> 1,
                       hcase |-> 0, ok |-> res.ok, refused |-> res.refused]
          /\ permits' = IF res.ok THEN Append(permits, now) ELSE permits
    /\ UNCHANGED <<crawlVars, queueVars, clientVars, now, bucketVars, config, advertised, advances, permit>>

\* rate_limiter.update_limits_from_headers("/l/m/a", "na1", headers) with the
\* X-App-Rate-Limit header of a response
RetuneUpdate ==
    /\ lcall.id < MaxRetuneCalls
    /\ \E h \in RetuneCases :
          /\ limiter' = UpdateLimitsFromHeaders(limiter, Targets[1].endpoint, Targets[1].region,
                                                HeaderCases[h].headers, now)
          /\ lcall' = [id |-> lcall.id + 1, op |-> "update", target |-> 1,
                       hcase |-> h, ok |-> TRUE, refused |-> "none"]
          /\ advertised' = advertised \cup {HeaderCases[h].app_sec}
    /\ UNCHANGED <<crawlVars, queueVars, clientVars, now, bucketVars, config, permits, advances, permit>>

NextRetune ==
    \/ RetuneAdvance
    \/ RetuneTryAcquireAll
    \/ RetuneUpdate

SpecRetune == InitRetune /\ [][NextRetune]_vars

\* Permits granted in the window of k seconds that starts with the i-th permit.
PermitsInWindow(i, k) ==
    Cardinality({j \in i..Len(permits) : permits[j] < permits[i] + k * SecondMs})

\* C1 as stated: when the configured limit and every header advertise the same
\* application limit c:1, the permits granted in any window of k seconds never
\* exceed c + k * c.
C1_Original ==
    LET c == config.application_limit_per_second IN
    advertised \subseteq {c} =>
        \A i \in 1..Len(permits), k \in 1..(MaxRetuneAdvances + 1) :
            PermitsInWindow(i, k) <= c + k * c


\* Mutant of the back-off of acquire_permit: the delay does not grow.
PermitDelayFlat(cfg, retry_count) == cfg.retry_delay_ms

\* acquire_permit: Duration::from_millis(retry_delay_ms * (1 << retry_count))
PermitDelay(cfg, retry_count) == cfg.retry_delay_ms * 2^retry_count

\* acquire_permit after try_acquire_all has returned res at time t: Ok when
\* the permit was given; else the refusal is counted, and the call sleeps before
\* the next attempt, or gives up when that was the last one.
AfterAttempt(p, res, cfg, t) ==
    IF res.ok
    THEN [p EXCEPT !.pc = "ok", !.results = Append(@, TRUE), !.times = Append(@, t)]
    ELSE IF p.retry_count + 1 < cfg.max_retries
    THEN [p EXCEPT !.pc = "sleeping", !.retry_count = @ + 1,
                   !.results = Append(@, FALSE), !.times = Append(@, t),
                   !.wake = t + PermitDelay(cfg, p.retry_count + 1),
                   !.sleeps = Append(@, PermitDelay(cfg, p.retry_count + 1))]
    ELSE [p EXCEPT !.pc = "err", !.retry_count = @ + 1,
                   !.results = Append(@, FALSE), !.times = Append(@, t)]

\* The RateLimiter and the call after try_acquire_all has returned res.
Attempted(p, res, cfg, t) ==
    [permit |-> AfterAttempt(p, res, cfg, t), limiter |-> res.limiter]

\* One pass of the while loop of acquire_permit for the call p at time t:
\* leave with Err when retry_count has reached max_retries, else try_acquire_all.
AcquirePermitLoop(p, rl, cfg, endpoint, region, t) ==
    IF ~(p.retry_count < cfg.max_retries)
    THEN [permit |-> [p EXCEPT !.pc = "err"], limiter |-> rl]
    ELSE Attempted(p, TryAcquireAll(rl, endpoint, region, t), cfg, t)

\* ------------------------------------------------------------------------
\* SpecPermit: acquire_permit calls, one at a time, beside try_acquire_all
\* calls of other tasks on the same RateLimiter
\* ------------------------------------------------------------------------
MaxRetries == 3          \* SpecPermit: largest max_retries drawn
MaxPermitCalls == 3      \* SpecPermit: acquire_permit and try_acquire_all calls
MaxPermitAdvances == 3   \* SpecPermit: clock advances

InitPermit ==
    /\ now = 0
    /\ CrawlUnused
    /\ BucketUnused
    /\ ClientUnused
    /\ QueueUnused
    /\ \E m \in {1, 3}, r \in 0..MaxRetries, d \in {SecondMs \div 2, SecondMs} :
          config = [application_limit_per_second |-> 1,
                    application_limit_per_two_minutes |-> m,
                    retry_delay_ms |-> d, max_retries |-> r]
    /\ limiter = NewLimiter(config, 0)
    /\ lcall = NoCall
    /\ permits = <<>>
    /\ advertised = {}
    /\ advances = 0
    /\ permit = NoPermit

\* Time passes: half a second, or up to the end of the sleep of acquire_permit.
PermitAdvance ==
    /\ advances < MaxPermitAdvances
    /\ \E d \in {SecondMs \div 2} \cup
                (IF permit.pc = "sleeping" /\ permit.wake > now THEN {permit.wake - now} ELSE {}) :
          now' = now + d
    /\ advances' = advances + 1
    /\ UNCHANGED <<crawlVars, queueVars, clientVars, bucketVars, config, limiter, lcall, permits, advertised, permit>>

\* The variables a pass of acquire_permit writes.
PermitWrites(step) ==
    /\ permit' = step.permit
    /\ limiter' = step.limiter

\* rate_limiter.acquire_permit(endpoint, region), up to its return or first sleep
AcquirePermitStart ==
    /\ permit.pc \in {"idle", "ok", "err"}
    /\ lcall.id < MaxPermitCalls
    /\ \E i \in {1, 3} :
          /\ PermitWrites(AcquirePermitLoop([NoPermit EXCEPT !.target = i], limiter, config,
                                            Targets[i].endpoint, Targets[i].region, now))
          /\ lcall' = [id |-> lcall.id + 1, op |-> "acquire_permit", target |-> i,
                       hcase |-> 0, ok |-> TRUE, refused |-> "none"]
    /\ UNCHANGED <<crawlVars, queueVars, clientVars, now, bucketVars, config, permits, advertised, advances>>

\* acquire_permit after sleep(delay): the next pass of the loop
AcquirePermitResume ==
    /\ permit.pc = "sleeping"
    /\ now >= permit.wake
    /\ PermitWrites(AcquirePermitLoop(permit, limiter, config, Targets[permit.target].endpoint,
                                      Targets[permit.target].region, now))
    /\ UNCHANGED <<crawlVars, queueVars, clientVars, now, bucketVars, config, lcall, permits, advertised, advances>>

\* another task calls try_acquire_all("/l/m/a", "na1")
PermitCompetitor ==
    /\ lcall.id < MaxPermitCalls
    /\ LET res == TryAcquireAll(limiter, Targets[1].endpoint, Targets[1].region, now) IN
          /\ limiter' = res.limiter
          /\ lcall' = [id |-> lcall.id + 1, op |-> "try_acquire_all", target |-> 1,
                       hcase |-> 0, ok |-> res.ok, refused |-> res.refused]
    /\ UNCHANGED <<crawlVars, queueVars, clientVars, now, bucketVars, config, permits, advertised, advances, permit>>

NextPermit ==
    \/ PermitAdvance
    \/ AcquirePermitStart
    \/ AcquirePermitResume
    \/ PermitCompetitor

SpecPermit == InitPermit /\ [][NextPermit]_vars

\* C6: acquire_permit calls try_acquire_all at most max_retries times; it returns
\* Ok at the first attempt that succeeds; after the n-th failed attempt it sleeps
\* retry_delay_ms * 2^n before it tries again (and does not try earlier); it
\* returns the error only when max_retries attempts have been made and all failed.
C6_PermitRetries ==
    LET n == Len(permit.results)
        failed(k) == \A j \in 1..k : ~permit.results[j]
    IN /\ n <= config.max_retries
       /\ permit.pc = "ok" => n >= 1 /\ permit.results[n] /\ failed(n - 1)
                              /\ Len(permit.sleeps) = n - 1
       /\ permit.pc = "err" => n = config.max_retries /\ failed(n)
                               /\ Len(permit.sleeps) = (IF n = 0 THEN 0 ELSE n - 1)
       /\ permit.pc = "sleeping" => n < config.max_retries /\ failed(n)
                                    /\ Len(permit.sleeps) = n
       /\ \A k \in 1..Len(permit.sleeps) :
             /\ permit.sleeps[k] = config.retry_delay_ms * 2^k
             /\ k < n => permit.times[k + 1] - permit.times[k] >= permit.sleeps[k]

\* C6 witness: the third attempt of a call with max_retries = 3 succeeded, after
\* two failures and two sleeps.
C6_Witness ==
    /\ config.max_retries = 3
    /\ permit.pc = "ok"
    /\ permit.results = <<FALSE, FALSE, TRUE>>
    /\ Len(permit.sleeps) = 2

\* C6 witness of the error: every attempt of a call with max_retries = 3 failed.
C6_WitnessErr ==
    /\ config.max_retries = 3
    /\ permit.pc = "err"
    /\ permit.results = <<FALSE, FALSE, FALSE>>


\* ------------------------------------------------------------------------
\* RiotApiClient (src/src/api/client.rs), ApiError (src/src/api/error.rs)
\* ------------------------------------------------------------------------

\* str::split(pattern) for a pattern of one or more characters
RECURSIVE SplitStr(_, _)
SplitStr(s, pat) ==
    LET hits == {i \in 1..(Len(s) - Len(pat) + 1) : \A j \in 1..Len(pat) : s[i + j - 1] = pat[j]} IN
    IF hits = {}
    THEN <<s>>
    ELSE LET i == CHOOSE h \in hits : \A g \in hits : h <= g IN
         <<SubSeq(s, 1, i - 1)>> \o SplitStr(SubSeq(s, i + Len(pat), Len(s)), pat)

\* "https://" and ".api.riotgames.com" (the scheme is shortened to h; the domain
\* is one piece, it holds no '/')
Scheme == <<"h", ":", "/", "/">>
Domain == <<".api.riotgames.com">>

\* Config::base_url_for_region: every arm is https://{region}.api.riotgames.com
BaseUrlForRegion(region) == Scheme \o region \o Domain

\* Config::regional_base_url_for_region
RegionalBaseUrlForRegion(region) ==
    LET cluster ==
        IF region \in {Na1, <<"b", "r", "1">>, <<"l", "a", "1">>, <<"l", "a", "2">>}
        THEN "americas"
        ELSE IF region \in {<<"e", "u", "w", "1">>, <<"e", "u", "n", "1">>,
                            <<"t", "r", "1">>, <<"r", "u">>}
        THEN "europe"
        ELSE IF region \in {Kr, <<"j", "p", "1">>}
        THEN "asia"
        ELSE IF region = <<"o", "c", "1">>
        THEN "sea"
        ELSE "americas"
    IN Scheme \o <<cluster>> \o Domain

\* make_request: the endpoint is what follows the platform base URL in the url,
\* else what follows the regional base URL, else the url itself
DeriveEndpoint(url, region) ==
    LET platform == SplitStr(url, BaseUrlForRegion(region))
        regional == SplitStr(url, RegionalBaseUrlForRegion(region))
    IN IF Len(platform) >= 2 THEN platform[2]
       ELSE IF Len(regional) >= 2 THEN regional[2]
       ELSE url

\* str::parse::<i32>(): decimal digits after an optional sign
ParseSigned(s) ==
    LET neg == s # <<>> /\ s[1] = "-"
        body == IF s # <<>> /\ s[1] \in {"+", "-"} THEN Tail(s) ELSE s
    IN IF body = <<>> \/ \E i \in 1..Len(body) : ~IsDigit(body[i])
       THEN [ok |-> FALSE, value |-> 0]
       ELSE [ok |-> TRUE, value |-> IF neg THEN 0 - DigitsValue(body) ELSE DigitsValue(body)]

HdrCount == "X-App-Rate-Limit-Count"
HdrRetryAfter == "Retry-After"

\* ApiError::is_retryable
IsRetryable(e) ==
    CASE e.kind = "RateLimit" -> TRUE
      [] e.kind = "ServiceUnavailable" -> TRUE
      [] e.kind = "Http" -> e.cause \in {"timeout", "connect"}
      [] e.kind = "Api" -> e.status \in {429, 500, 502, 503, 504}
      [] OTHER -> FALSE

\* Mutant of the status match of make_request: the 5xx arm ends before 599.
MapStatusShort(status, body) ==
    CASE status = 200 -> Err("Ok")
      [] status = 400 -> [Err("BadRequest") EXCEPT !.message = body]
      [] status \in {401, 403} -> Err("Authentication")
      [] status = 404 -> Err("NotFound")
      [] status = 429 -> Err("RateLimit")
      [] status \in 500..598 -> Err("ServiceUnavailable")
      [] OTHER -> [Err("Api") EXCEPT !.status = status, !.message = body]

\* make_request: match response.status().as_u16() (Ok(response) is the variant Ok)
MapStatus(status, body) ==
    CASE status = 200 -> Err("Ok")
      [] status = 400 -> [Err("BadRequest") EXCEPT !.message = body]
      [] status \in {401, 403} -> Err("Authentication")
      [] status = 404 -> Err("NotFound")
      [] status = 429 -> Err("RateLimit")
      [] status \in 500..599 -> Err("ServiceUnavailable")
      [] OTHER -> [Err("Api") EXCEPT !.status = status, !.message = body]

\* Mutant of handle_429_response: the Retry-After header is not used.
Handle429DelayNoHeader(cfg, retry_after) == cfg.retry_delay_ms

\* RateLimiter::handle_429_response: how long it sleeps, in ms
Handle429Delay(cfg, retry_after) ==
    IF retry_after >= 0 THEN retry_after * SecondMs ELSE cfg.retry_delay_ms

\* Mutant of the loop of make_request_with_retry: the exponent of the delay is
\* the number of retries made before this one.
RetryLoopZeroBased(r, outcome, cfg, t) ==
    IF outcome.kind = "Ok"
    THEN [r EXCEPT !.pc = "done", !.outcome = outcome,
                   !.result = IF r.body = "json" THEN Err("Ok") ELSE Err("Json")]
    ELSE IF IsRetryable(outcome) /\ r.retries < cfg.max_retries
    THEN [r EXCEPT !.pc = "backoff", !.outcome = outcome, !.asked = TRUE,
                   !.retryable = IsRetryable(outcome), !.retries = r.retries + 1,
                   !.wake = t + cfg.retry_delay_ms * 2^r.retries,
                   !.delays = Append(@, cfg.retry_delay_ms * 2^r.retries)]
    ELSE [r EXCEPT !.pc = "done", !.outcome = outcome, !.asked = TRUE,
                   !.retryable = IsRetryable(outcome), !.result = outcome]

\* Mutant of the loop of make_request_with_retry: one retry more than max_retries.
RetryLoopExtra(r, outcome, cfg, t) ==
    IF outcome.kind = "Ok"
    THEN [r EXCEPT !.pc = "done", !.outcome = outcome,
                   !.result = IF r.body = "json" THEN Err("Ok") ELSE Err("Json")]
    ELSE IF IsRetryable(outcome) /\ r.retries <= cfg.max_retries
    THEN [r EXCEPT !.pc = "backoff", !.outcome = outcome, !.asked = TRUE,
                   !.retryable = IsRetryable(outcome), !.retries = r.retries + 1,
                   !.wake = t + cfg.retry_delay_ms * 2^(r.retries + 1),
                   !.delays = Append(@, cfg.retry_delay_ms * 2^(r.retries + 1))]
    ELSE [r EXCEPT !.pc = "done", !.outcome = outcome, !.asked = TRUE,
                   !.retryable = IsRetryable(outcome), !.result = outcome]

\* make_request_with_retry: what the loop does with the value make_request
\* returned at time t. Ok: the body is decoded and the call returns. Err: the
\* call sleeps and goes round again when the error is retryable and retries are
\* left, and returns the error otherwise.
RetryLoop(r, outcome, cfg, t) ==
    IF outcome.kind = "Ok"
    THEN [r EXCEPT !.pc = "done", !.outcome = outcome,
                   !.result = IF r.body = "json" THEN Err("Ok") ELSE Err("Json")]
    ELSE IF IsRetryable(outcome) /\ r.retries < cfg.max_retries
    THEN [r EXCEPT !.pc = "backoff", !.outcome = outcome, !.asked = TRUE,
                   !.retryable = IsRetryable(outcome), !.retries = r.retries + 1,
                   !.wake = t + cfg.retry_delay_ms * 2^(r.retries + 1),
                   !.delays = Append(@, cfg.retry_delay_ms * 2^(r.retries + 1))]
    ELSE [r EXCEPT !.pc = "done", !.outcome = outcome, !.asked = TRUE,
                   !.retryable = IsRetryable(outcome), !.result = outcome]

\* Mutant of make_request: the GET is sent also when acquire_permit gave up.
AfterPermitPassAlways(r, p, cfg, t) ==
    CASE p.pc = "sleeping" -> [r EXCEPT !.pc = "permit"]
      [] OTHER -> [r EXCEPT !.pc = "sending", !.trace = Append(@, "permit")]

\* make_request after a pass of acquire_permit: the GET is next when the permit
\* was given, the pass after the sleep when it was not, and the error
\* ApiError::RateLimiter goes to the loop when acquire_permit gave up.
AfterPermitPass(r, p, cfg, t) ==
    CASE p.pc = "ok" -> [r EXCEPT !.pc = "sending", !.trace = Append(@, "permit")]
      [] p.pc = "sleeping" -> [r EXCEPT !.pc = "permit"]
      [] OTHER -> RetryLoop(r, Err("RateLimiter"), cfg, t)

\* Urls and regions the client is called with: a platform url, a regional url,
\* and a url of another region's host (no base URL of the region is in it).
UrlCases ==
    << [url |-> BaseUrlForRegion(Na1) \o EpSummoner, region |-> Na1],
       [url |-> RegionalBaseUrlForRegion(Na1) \o EpMatchA, region |-> Na1],
       [url |-> BaseUrlForRegion(Kr) \o EpMatchA, region |-> Na1] >>

ReqEndpoint(r) == DeriveEndpoint(UrlCases[r.url].url, UrlCases[r.url].region)
ReqRegion(r) == UrlCases[r.url].region

\* The client and the rate limiter after the pass step of acquire_permit.
PermitPassed(r, step, cfg, t) ==
    [req |-> AfterPermitPass(r, step.permit, cfg, t),
     permit |-> step.permit, limiter |-> step.limiter]

\* make_request from its first line to the first pass of acquire_permit
EnterMakeRequest(r, rl, cfg, t) ==
    PermitPassed([r EXCEPT !.calls = @ + 1, !.status = -1, !.body = "",
                           !.outcome = NoResult, !.asked = FALSE, !.retryable = FALSE,
                           !.times = Append(@, t), !.trace = <<>>],
                 AcquirePermitLoop(NoPermit, rl, cfg, ReqEndpoint(r), ReqRegion(r), t),
                 cfg, t)

\* The variables a pass of acquire_permit inside make_request writes.
PermitPassWrites(step) ==
    /\ req' = step.req
    /\ permit' = step.permit
    /\ limiter' = step.limiter

\* What the upstream can answer to a GET: the send fails (transport names the
\* failure), or a response arrives with a status, headers and a body.
\* hcase: the limit headers, a case of HeaderCases; count and retry_after: the
\* values of X-App-Rate-Limit-Count and Retry-After (<<>>: header absent).
Answer(transport, status, hcase, count, retry_after, body) ==
    [transport |-> transport, status |-> status, hcase |-> hcase, count |-> count,
     retry_after |-> retry_after, body |-> body]

\* response.headers() of an answer
AnswerHeaders(a) ==
    LET limits == HeaderCases[a.hcase].headers
        names == DOMAIN limits \cup (IF a.count # <<>> THEN {HdrCount} ELSE {})
                               \cup (IF a.retry_after # <<>> THEN {HdrRetryAfter} ELSE {})
    IN [h \in names |-> IF h = HdrCount THEN a.count
                        ELSE IF h = HdrRetryAfter THEN a.retry_after
                        ELSE limits[h]]

\* headers.get(name).and_then(to_str).and_then(parse): -1 stands for None
HeaderNumber(headers, name) ==
    IF name \in DOMAIN headers /\ ParseSigned(headers[name]).ok
    THEN ParseSigned(headers[name]).value
    ELSE -1

Answers ==
    { Answer("timeout", 0, 1, <<>>, <<>>, ""),
      Answer("connect", 0, 1, <<>>, <<>>, ""),
      Answer("other", 0, 1, <<>>, <<>>, ""),
      Answer("ok", 200, 1, <<"5">>, <<>>, "json"),
      Answer("ok", 200, 1, <<>>, <<>>, "junk"),
      Answer("ok", 200, 2, <<"1", ":", "1">>, <<>>, "json"),
      Answer("ok", 201, 1, <<>>, <<>>, "json"),
      Answer("ok", 400, 1, <<>>, <<>>, "junk"),
      Answer("ok", 401, 1, <<>>, <<>>, "junk"),
      Answer("ok", 403, 1, <<>>, <<>>, "junk"),
      Answer("ok", 404, 1, <<>>, <<>>, "junk"),
      Answer("ok", 418, 1, <<>>, <<>>, "junk"),
      Answer("ok", 429, 1, <<"0">>, <<>>, "junk"),
      Answer("ok", 429, 1, <<>>, <<"1">>, "junk"),
      Answer("ok", 500, 1, <<>>, <<>>, "junk"),
      Answer("ok", 599, 1, <<>>, <<>>, "junk"),
      Answer("ok", 600, 1, <<>>, <<>>, "junk") }

\* ------------------------------------------------------------------------
\* SpecClient: one make_request_with_retry call of a RiotApiClient, from its
\* start to its return, against an upstream that answers anything
\* ------------------------------------------------------------------------
MaxClientRetries == 3    \* SpecClient: largest max_retries drawn
MaxClientAdvances == 3   \* SpecClient: clock advances

\* The application limits (per second, per two minutes) the client runs with:
\* the defaults of Config, and tight ones that run out within a call.
ClientLimits == {<<1, 1>>, <<1, 100>>, <<20, 100>>}

InitClient ==
    /\ now = 0
    /\ CrawlUnused
    /\ BucketUnused
    /\ QueueUnused
    /\ \E l \in ClientLimits, r \in 0..MaxClientRetries, d \in {SecondMs \div 100, SecondMs \div 10, SecondMs} :
          config = [application_limit_per_second |-> l[1],
                    application_limit_per_two_minutes |-> l[2],
                    retry_delay_ms |-> d, max_retries |-> r]
    /\ limiter = NewLimiter(config, 0)
    /\ lcall = NoCall
    /\ permits = <<>>
    /\ advertised = {}
    /\ advances = 0
    /\ permit = NoPermit
    /\ req = NoRequest
    /\ audit = NoAudit

\* Time passes while the call sleeps, to the end of the sleep.
ClientAdvance ==
    /\ advances < MaxClientAdvances
    /\ req.pc \in {"permit", "sleep429", "backoff"}
    /\ LET wake == IF req.pc = "permit" THEN permit.wake ELSE req.wake IN
          /\ wake > now
          /\ now' = wake
    /\ advances' = advances + 1
    /\ UNCHANGED <<crawlVars, queueVars, bucketVars, config, limiter, lcall, permits, advertised, permit, clientVars>>

\* make_request_with_retry(url, region), up to the first await that takes time
RequestStart ==
    /\ req.pc = "idle"
    /\ \E u \in 1..Len(UrlCases) :
          PermitPassWrites(EnterMakeRequest([NoRequest EXCEPT !.id = req.id + 1, !.url = u],
                                            limiter, config, now))
    /\ UNCHANGED <<crawlVars, queueVars, now, bucketVars, config, lcall, permits, advertised, advances, audit>>

\* make_request: acquire_permit comes back from its sleep
RequestPermitResume ==
    /\ req.pc = "permit"
    /\ now >= permit.wake
    /\ PermitPassWrites(PermitPassed(req,
                                     AcquirePermitLoop(permit, limiter, config,
                                                       ReqEndpoint(req), ReqRegion(req), now),
                                     config, now))
    /\ UNCHANGED <<crawlVars, queueVars, now, bucketVars, config, lcall, permits, advertised, advances, audit>>

\* make_request, the response has arrived: the row for api_calls
ApiCall(r, status, headers) ==
    [endpoint |-> ReqEndpoint(r), region |-> ReqRegion(r), response_code |-> status,
     rate_limit_remaining |-> HeaderNumber(headers, HdrCount)]

\* make_request, the status match on the response held by r at time t: a 429
\* sleeps in handle_429_response first, any other status goes back to the loop.
Matched(r, headers, cfg, t) ==
    IF r.status = 429
    THEN [r EXCEPT !.pc = "sleep429", !.trace = Append(@, "match"),
                   !.retry_after = IF HdrRetryAfter \in DOMAIN headers
                                   THEN ParseUnsigned(headers[HdrRetryAfter]) ELSE -1,
                   !.wake = t + Handle429Delay(cfg, IF HdrRetryAfter \in DOMAIN headers
                                                    THEN ParseUnsigned(headers[HdrRetryAfter])
                                                    ELSE -1)]
    ELSE RetryLoop([r EXCEPT !.trace = Append(@, "match")], MapStatus(r.status, r.body), cfg, t)

\* The statuses the loop of make_request_with_retry retries.
RetryableStatus(status) == status = 429 \/ (500 <= status /\ status <= 599)

\* make_request with the response a in hand: the row is written to api_calls (a
\* failure to write is only logged), the headers go to the rate limiter, and
\* the status is matched.
Received(a, headers, db_ok) ==
    /\ audit' = IF db_ok
                THEN [rows |-> audit.rows + 1, last |-> ApiCall(req, a.status, headers)]
                ELSE audit
    /\ limiter' = UpdateLimitsFromHeaders(limiter, ReqEndpoint(req), ReqRegion(req), headers, now)
    /\ req' = Matched([req EXCEPT !.sends = @ + 1, !.status = a.status, !.body = a.body,
                                  !.count = a.count, !.hcase = a.hcase,
                                  !.first = IF @ = -1 THEN a.status ELSE @,
                                  !.only_retryable = @ /\ RetryableStatus(a.status),
                                  !.trace = @ \o <<"get", IF db_ok THEN "log" ELSE "log failed",
                                                   "update">>],
                      headers, config, now)

\* make_request from the GET on: the send fails, or a response is received.
RequestSend ==
    /\ req.pc = "sending"
    /\ \E a \in Answers, db_ok \in BOOLEAN :
          IF a.transport # "ok"
          THEN /\ req' = RetryLoop([req EXCEPT !.sends = @ + 1, !.only_retryable = FALSE,
                                              !.first = IF @ = -1 THEN 0 ELSE @,
                                              !.trace = Append(@, "get")],
                                   [Err("Http") EXCEPT !.cause = a.transport], config, now)
               /\ UNCHANGED <<limiter, audit>>
          ELSE Received(a, AnswerHeaders(a), db_ok)
    /\ UNCHANGED <<crawlVars, queueVars, now, bucketVars, config, lcall, permits, advertised, advances, permit>>

\* make_request: handle_429_response has slept; Err(ApiError::RateLimit)
Request429Wake ==
    /\ req.pc = "sleep429"
    /\ now >= req.wake
    /\ req' = RetryLoop(req, MapStatus(req.status, req.body), config, now)
    /\ UNCHANGED <<crawlVars, queueVars, now, bucketVars, config, limiter, lcall, permits, advertised, advances, permit, audit>>

\* make_request_with_retry: sleep(delay) is over, make_request is called again
RequestBackoffWake ==
    /\ req.pc = "backoff"
    /\ now >= req.wake
    /\ PermitPassWrites(EnterMakeRequest(req, limiter, config, now))
    /\ UNCHANGED <<crawlVars, queueVars, now, bucketVars, config, lcall, permits, advertised, advances, audit>>

NextClient ==
    \/ ClientAdvance
    \/ RequestStart
    \/ RequestPermitResume
    \/ RequestSend
    \/ Request429Wake
    \/ RequestBackoffWake

SpecClient == InitClient /\ [][NextClient]_vars

\* C7 (as stated): when acquire_permit fails, the error of make_request is
\* classified as retryable, and make_request_with_retry returns it only once its
\* retries are used up.
C7_Original ==
    (req.outcome.kind = "RateLimiter" /\ req.asked /\ config.max_retries >= 1) =>
        /\ req.retryable
        /\ req.pc = "done" => req.retries = config.max_retries

\* C10: every status is matched to one outcome: 200 Ok, 400 BadRequest with the
\* body, 401 and 403 Authentication, 404 NotFound, 429 RateLimit, 500..599
\* ServiceUnavailable, any other status Api with the status and the body; the
\* loop finds RateLimit and ServiceUnavailable retryable, and BadRequest,
\* Authentication, NotFound and the decode error Json not retryable (no retry
\* follows them).
C10_StatusOutcome ==
    LET s == req.status
        o == req.outcome
        permanent == {"BadRequest", "Authentication", "NotFound"}
    IN /\ (s # -1 /\ req.pc # "sleep429") =>
             /\ s = 200 <=> o.kind = "Ok"
             /\ s = 400 <=> (o.kind = "BadRequest" /\ o.message = req.body)
             /\ s \in {401, 403} <=> o.kind = "Authentication"
             /\ s = 404 <=> o.kind = "NotFound"
             /\ s = 429 <=> o.kind = "RateLimit"
             /\ (500 <= s /\ s <= 599) <=> o.kind = "ServiceUnavailable"
             /\ (s \notin {200, 400, 401, 403, 404, 429} /\ ~(500 <= s /\ s <= 599))
                   <=> (o.kind = "Api" /\ o.status = s /\ o.message = req.body)
       /\ (req.asked /\ o.kind \in {"RateLimit", "ServiceUnavailable"}) =>
             /\ req.retryable
             /\ req.retries < config.max_retries + (IF req.pc = "backoff" THEN 1 ELSE 0)
                   => req.pc = "backoff"
       /\ (req.asked /\ o.kind \in permanent) =>
             ~req.retryable /\ req.pc = "done" /\ req.result = o
       /\ req.result.kind = "Json" =>
             /\ ~IsRetryable(req.result)
             /\ req.pc = "done" /\ o.kind = "Ok" /\ req.body # "json"

\* C10 witness: a 599 was matched to ServiceUnavailable and is being retried.
C10_Witness ==
    /\ req.status = 599
    /\ req.outcome.kind = "ServiceUnavailable"
    /\ req.pc = "backoff"

\* C10 witness of the other arms: a 403 ended the call with Authentication.
C10_WitnessPermanent ==
    /\ req.status = 403
    /\ req.pc = "done"
    /\ req.result.kind = "Authentication"
    /\ config.max_retries > 0


\* The parts of C11 that do not depend on the rate limiter: a call never sends
\* more than max_retries + 1 requests, and a first response that is a permanent
\* error or a 200 ends the call after that one request (NotFound for a 404, the
\* decode error Json for a 200 whose body does not decode), with no retry.
C11_Permanent ==
    /\ req.sends <= config.max_retries + 1
    /\ req.first \in {200, 400, 401, 403, 404} =>
          /\ req.sends = 1 /\ req.retries = 0 /\ req.pc = "done"
          /\ req.first = 404 => req.result.kind = "NotFound"
          /\ (req.first = 200 /\ req.body # "json") => req.result.kind = "Json"

RECURSIVE SumSeq(_)
SumSeq(q) == IF q = <<>> THEN 0 ELSE Head(q) + SumSeq(Tail(q))

\* C13: the delay before the n-th retry is retry_delay_ms * 2^n (200, 400, 800
\* for a base of 100), each delay twice the one before; the retry does not
\* start before the delay has passed; after three retries the delays add up to
\* at least 7 * retry_delay_ms (10 + 20 + 40 = 70 for a base of 10).
C13_ExponentialBackoff ==
    /\ \A n \in 1..Len(req.delays) :
          /\ req.delays[n] = config.retry_delay_ms * 2^n
          /\ n >= 2 => req.delays[n] = 2 * req.delays[n - 1]
          /\ n < Len(req.times) => req.times[n + 1] - req.times[n] >= req.delays[n]
    /\ Len(req.delays) = req.retries
    /\ (config.retry_delay_ms = 100 /\ Len(req.delays) = 3) => req.delays = <<200, 400, 800>>
    /\ Len(req.delays) = 3 => SumSeq(req.delays) >= 7 * config.retry_delay_ms
    /\ (config.retry_delay_ms = 10 /\ Len(req.times) = 4) => req.times[4] - req.times[1] >= 70

\* C13 witness: base 10, max_retries = 3, four responses 500: three delays.
C13_Witness ==
    /\ config.retry_delay_ms = 10 /\ config.max_retries = 3
    /\ req.pc = "done" /\ req.sends = 4 /\ req.first = 500 /\ req.status = 500
    /\ Len(req.delays) = 3


\* The steps a make_request call goes through, in the order of its code.
RequestSteps(logged) == <<"permit", "get", logged, "update", "match">>

\* The steps of the current make_request call are the first steps of RequestSteps.
StepsInOrder ==
    \E logged \in {"log", "log failed"} :
        /\ Len(req.trace) <= 5
        /\ req.trace = SubSeq(RequestSteps(logged), 1, Len(req.trace))

\* The endpoint of each of UrlCases: the path for the platform and the regional
\* url, the whole url when no base URL of the region is in it.
EndpointOfUrl == <<EpSummoner, EpMatchA, UrlCases[3].url>>

\* C14, in every state: the steps of make_request come in the order permit, GET,
\* audit row, update_limits_from_headers, status match; the GET is sent only
\* after acquire_permit has returned Ok for the endpoint and region of the url
\* (its buckets exist); once a response is in hand the audit row has been tried
\* and the headers have gone to the rate limiter before the status is matched;
\* a failed write of the row leaves the outcome of the request as the status
\* gives it.
C14_StepsState ==
    /\ StepsInOrder
    /\ (req.pc = "sending" \/ Len(req.trace) >= 2) =>
          /\ permit.pc = "ok"
          /\ permit.results # <<>> /\ permit.results[Len(permit.results)]
          /\ KeyOf(EndpointOfUrl[req.url], Na1) \in DOMAIN limiter.method_limiters
    /\ req.status # -1 =>
          /\ Len(req.trace) = 5
          /\ req.trace[3] = "log" =>
                /\ audit.rows >= 1
                /\ audit.last.endpoint = EndpointOfUrl[req.url]
                /\ audit.last.region = Na1
                /\ audit.last.response_code = req.status
                /\ audit.last.rate_limit_remaining =
                      (IF req.count = <<"5">> THEN 5 ELSE IF req.count = <<"0">> THEN 0 ELSE -1)
          /\ req.hcase = 2 =>
                /\ limiter.application_limiter_per_second.capacity = 1
                /\ limiter.application_limiter_per_two_minutes.capacity = 3
          /\ (req.trace[3] = "log failed" /\ req.pc # "sleep429") =>
                req.outcome = MapStatus(req.status, req.body)

\* C14, in every step: a step that receives a response writes exactly one row
\* to api_calls, or none when the write fails; no other step writes one.
C14_StepsAction ==
    LET responded == req'.sends = req.sends + 1 /\ req'.status # -1 IN
    /\ responded =>
          \/ audit'.rows = audit.rows + 1 /\ req'.trace[3] = "log"
          \/ audit' = audit /\ req'.trace[3] = "log failed"
    /\ ~responded => audit' = audit

\* C14: the steps of make_request happen in a fixed order.
C14_FixedOrder == []C14_StepsState /\ [][C14_StepsAction]_vars

\* C14 witness: a response 404 whose audit row could not be written; the
\* headers were fed back, the status was matched, the call returned NotFound.
C14_Witness ==
    /\ req.trace = RequestSteps("log failed")
    /\ req.status = 404
    /\ req.result.kind = "NotFound"
    /\ audit.rows = 0

\* C14 witness: a response 200 with limit headers and an audit row.
C14_WitnessLogged ==
    /\ req.trace = RequestSteps("log")
    /\ req.hcase = 2
    /\ audit.rows = 1 /\ audit.last.response_code = 200
    /\ limiter.application_limiter_per_second.capacity = 1

\* ------------------------------------------------------------------------
\* SummonerQueue: three FIFO bands behind three locks
\* ------------------------------------------------------------------------
MaxPushes == 4
MaxBatch == 2
MaxPops == 5

Priorities == {"High", "Medium", "Low"}

\* The puuids of the summoners, one per task created.
Puuids == <<"a", "b", "c", "d", "e", "f", "g", "h">>

\* A SummonerTask as its creators build it: retries 0, added_at the creation time.
NewTask(serial, priority) ==
    [puuid |-> Puuids[serial], region |-> Na1, priority |-> priority, retries |-> 0,
     added_at |-> serial]

\* push: the band is chosen by the task's priority; push_back under its lock.
BandOf(priority) ==
    CASE priority = "High" -> "high_priority"
      [] priority = "Medium" -> "medium_priority"
      [] priority = "Low" -> "low_priority"

PushBack(q, band, task) == [q EXCEPT ![band] = Append(@, task)]

Push(q, task) == PushBack(q, BandOf(task.priority), task)

\* push_batch: the tasks of one priority, in the order of the batch.
Partition(tasks, priority) == SelectSeq(tasks, LAMBDA t : t.priority = priority)

\* push_batch that puts the tasks of a batch at the front of the band.
ExtendFront(q, band, tasks) ==
    IF tasks = <<>> THEN q ELSE [q EXCEPT ![band] = tasks \o @]

\* push_batch: a band is locked only when the batch has tasks for it.
Extend(q, band, tasks) ==
    IF tasks = <<>> THEN q ELSE [q EXCEPT ![band] = @ \o tasks]

PushBatch(q, tasks) ==
    Extend(Extend(Extend(q, "high_priority", Partition(tasks, "High")),
                  "medium_priority", Partition(tasks, "Medium")),
           "low_priority", Partition(tasks, "Low"))

\* VecDeque::pop_back, used where pop_front should be.
PopBack(band) ==
    IF band = <<>>
    THEN [task |-> NoTask, rest |-> <<>>]
    ELSE [task |-> band[Len(band)], rest |-> SubSeq(band, 1, Len(band) - 1)]

\* VecDeque::front, used where pop_front should be: the task stays in the band.
PopFrontKeep(band) ==
    IF band = <<>>
    THEN [task |-> NoTask, rest |-> <<>>]
    ELSE [task |-> Head(band), rest |-> band]

\* VecDeque::pop_front.
PopFront(band) ==
    IF band = <<>>
    THEN [task |-> NoTask, rest |-> <<>>]
    ELSE [task |-> Head(band), rest |-> Tail(band)]

\* One lock section of pop: pop_front on one band.
PopBand(q, band) ==
    [task |-> PopFront(q[band]).task, queue |-> [q EXCEPT ![band] = PopFront(q[band]).rest]]

\* pop, with no other call between its lock sections.
Pop(q) ==
    IF PopBand(q, "high_priority").task # NoTask THEN PopBand(q, "high_priority")
    ELSE IF PopBand(q, "medium_priority").task # NoTask THEN PopBand(q, "medium_priority")
    ELSE PopBand(q, "low_priority")

Size(q) == <<Len(q.high_priority), Len(q.medium_priority), Len(q.low_priority)>>

TotalSize(q) == Size(q)[1] + Size(q)[2] + Size(q)[3]

IsEmpty(q) == TotalSize(q) = 0

Clear(q) == [high_priority |-> <<>>, medium_priority |-> <<>>, low_priority |-> <<>>]

\* peek_next: the priority of the first non-empty band, "none" for None.
PeekNext(q) ==
    IF q.high_priority # <<>> THEN "High"
    ELSE IF q.medium_priority # <<>> THEN "Medium"
    ELSE IF q.low_priority # <<>> THEN "Low"
    ELSE "none"

ReadQueue(q) ==
    [size |-> Size(q), total_size |-> TotalSize(q), is_empty |-> IsEmpty(q),
     peek_next |-> PeekNext(q)]

\* The phase of the history: pushes only, then pops only, then anything.
AfterPush(phase) == IF phase = "pushing" THEN "pushing" ELSE "mixed"
AfterPop(phase) == IF phase = "mixed" THEN "mixed" ELSE "popping"

Last(op, task, before) == [op |-> op, task |-> task, before |-> before, read |-> NoRead]

\* ------------------------------------------------------------------------
\* SpecQueue: one caller at a time
\* ------------------------------------------------------------------------
InitQueue ==
    /\ now = 0
    /\ CrawlUnused
    /\ BucketUnused
    /\ LimiterUnused
    /\ ClientUnused
    /\ queue = NewQueue
    /\ qcall = NoQueueCalls
    /\ qhist = NoQueueHistory
    /\ engine = NewEngine

QueuePushTask(task) ==
    /\ queue' = Push(queue, task)
    /\ qhist' = [qhist EXCEPT !.pushed = Append(@, task),
                              !.phase = AfterPush(@),
                              !.last = Last("push", task, queue)]

QueuePush ==
    /\ Len(qhist.pushed) < MaxPushes
    /\ \E priority \in Priorities :
          QueuePushTask(NewTask(Len(qhist.pushed) + 1, priority))
    /\ UNCHANGED <<crawlVars, now, bucketVars, limiterVars, clientVars, qcall, engine>>

\* The batch whose k-th task has priority priorities[k].
BatchOf(first, priorities) ==
    [k \in 1..Len(priorities) |-> NewTask(first + k, priorities[k])]

QueuePushBatch ==
    /\ \E n \in 2..MaxBatch :
          /\ Len(qhist.pushed) + n <= MaxPushes
          /\ \E priorities \in [1..n -> Priorities] :
                /\ queue' = PushBatch(queue, BatchOf(Len(qhist.pushed), priorities))
                /\ qhist' = [qhist EXCEPT
                               !.pushed = @ \o BatchOf(Len(qhist.pushed), priorities),
                               !.phase = AfterPush(@),
                               !.last = Last("push_batch", NoTask, queue)]
    /\ UNCHANGED <<crawlVars, now, bucketVars, limiterVars, clientVars, qcall, engine>>

QueuePopped(res) ==
    /\ queue' = res.queue
    /\ qhist' = [qhist EXCEPT
                   !.popped = IF res.task = NoTask THEN @ ELSE Append(@, res.task),
                   !.nones = IF res.task = NoTask THEN @ + 1 ELSE @,
                   !.phase = AfterPop(@),
                   !.last = Last("pop", res.task, queue)]

QueuePop ==
    /\ Len(qhist.popped) + qhist.nones < MaxPops
    /\ QueuePopped(Pop(queue))
    /\ UNCHANGED <<crawlVars, now, bucketVars, limiterVars, clientVars, qcall, engine>>

QueueClear ==
    /\ ~IsEmpty(queue)
    /\ queue' = Clear(queue)
    /\ qhist' = [qhist EXCEPT !.phase = "mixed", !.last = Last("clear", NoTask, queue)]
    /\ UNCHANGED <<crawlVars, now, bucketVars, limiterVars, clientVars, qcall, engine>>

\* size(), total_size(), is_empty() and peek_next() change nothing.
QueueRead ==
    /\ qhist.last.op # "read"
    /\ qhist' = [qhist EXCEPT !.last = [op |-> "read", task |-> NoTask, before |-> queue,
                                         read |-> ReadQueue(queue)]]
    /\ UNCHANGED <<crawlVars, now, bucketVars, limiterVars, clientVars, queue, qcall, engine>>

NextQueue ==
    \/ QueuePush
    \/ QueuePushBatch
    \/ QueuePop
    \/ QueueClear
    \/ QueueRead

SpecQueue == InitQueue /\ [][NextQueue]_vars

IsPrefix(s, t) == Len(s) <= Len(t) /\ s = SubSeq(t, 1, Len(s))

\* The pushed tasks band by band, each band in push order.
ByBand(pushed) ==
    Partition(pushed, "High") \o Partition(pushed, "Medium") \o Partition(pushed, "Low")

\* C15: when pushes are followed by pops, the pops return the High tasks, then
\* the Medium tasks, then the Low tasks, each band in its push order; a pop on
\* an empty queue returns none and leaves the queue as it was.
C15_PopOrder ==
    /\ qhist.phase \in {"pushing", "popping"} => IsPrefix(qhist.popped, ByBand(qhist.pushed))
    /\ (qhist.last.op = "pop" /\ IsEmpty(qhist.last.before)) =>
           (qhist.last.task = NoTask /\ queue = qhist.last.before)

C15_Witness ==
    /\ qhist.phase = "popping"
    /\ Len(qhist.pushed) >= 4
    /\ qhist.pushed[1].priority = "Low"
    /\ qhist.pushed[2].priority = "High"
    /\ qhist.pushed[3].priority = "Medium"
    /\ qhist.pushed[4].priority = "High"
    /\ Len(qhist.popped) = Len(qhist.pushed)
    /\ qhist.nones >= 1
    /\ qhist.last.op = "pop"
    /\ qhist.last.task = NoTask

\* ------------------------------------------------------------------------
\* SpecQueueConc: concurrent callers; every lock section is one step
\* ------------------------------------------------------------------------
MaxConcPushes == 3
MaxConcPops == 3

InitQueueConc ==
    /\ now = 0
    /\ CrawlUnused
    /\ BucketUnused
    /\ LimiterUnused
    /\ ClientUnused
    /\ queue = NewQueue
    /\ qcall = NoQueueCalls
    /\ qhist = [NoQueueHistory EXCEPT !.phase = "mixed"]
    /\ engine = NewEngine

\* The tasks handed to push and push_batch so far, placed in a band or not yet.
Created == Len(qhist.pushed) + Len(qcall.batch.high) + Len(qcall.batch.medium) + Len(qcall.batch.low)

\* The pop calls made so far, returned or not.
PopCalls == Len(qhist.popped) + qhist.nones + Cardinality({p \in Poppers : qcall.pop[p] # "idle"})

\* push: one lock section.
ConcPush ==
    /\ Created < MaxConcPushes
    /\ \E priority \in Priorities : QueuePushTask(NewTask(Created + 1, priority))
    /\ UNCHANGED <<crawlVars, now, bucketVars, limiterVars, clientVars, qcall, engine>>

\* One lock section of push_batch: the tasks of one band are appended.
BatchSection(band, tasks, next, batch) ==
    /\ queue' = Extend(queue, band, tasks)
    /\ qhist' = [qhist EXCEPT !.pushed = @ \o tasks,
                              !.last = Last("push_batch", NoTask, queue)]
    /\ qcall' = [qcall EXCEPT !.batch = [batch EXCEPT !.pc = next]]

\* push_batch partitions the batch, then locks the high band.
BatchStarted(tasks) ==
    BatchSection("high_priority", Partition(tasks, "High"), "medium",
                 [pc |-> "high", high |-> <<>>, medium |-> Partition(tasks, "Medium"),
                  low |-> Partition(tasks, "Low")])

BatchStart ==
    /\ qcall.batch.pc = "idle"
    /\ \E n \in 2..MaxBatch :
          /\ Created + n <= MaxConcPushes
          /\ \E priorities \in [1..n -> Priorities] : BatchStarted(BatchOf(Created, priorities))
    /\ UNCHANGED <<crawlVars, now, bucketVars, limiterVars, clientVars, engine>>

BatchMedium ==
    /\ qcall.batch.pc = "medium"
    /\ BatchSection("medium_priority", qcall.batch.medium, "low",
                    [qcall.batch EXCEPT !.medium = <<>>])
    /\ UNCHANGED <<crawlVars, now, bucketVars, limiterVars, clientVars, engine>>

BatchLow ==
    /\ qcall.batch.pc = "low"
    /\ BatchSection("low_priority", qcall.batch.low, "idle",
                    [qcall.batch EXCEPT !.low = <<>>])
    /\ UNCHANGED <<crawlVars, now, bucketVars, limiterVars, clientVars, engine>>

\* A lock section of pop that found a task, or the last one: pop returns.
PopReturns(p, res) ==
    /\ QueuePopped(res)
    /\ qcall' = [qcall EXCEPT !.pop[p] = "idle"]

\* A lock section of pop that found its band empty: pop goes on to the next.
PopGoesOn(p, next) ==
    /\ qcall' = [qcall EXCEPT !.pop[p] = next]
    /\ UNCHANGED <<crawlVars, queue, qhist>>

PopSection(p, res, next) ==
    IF res.task # NoTask \/ next = "idle" THEN PopReturns(p, res) ELSE PopGoesOn(p, next)

PopHigh(p) ==
    /\ qcall.pop[p] = "idle"
    /\ PopCalls < MaxConcPops
    /\ PopSection(p, PopBand(queue, "high_priority"), "medium")
    /\ UNCHANGED <<crawlVars, now, bucketVars, limiterVars, clientVars, engine>>

PopMedium(p) ==
    /\ qcall.pop[p] = "medium"
    /\ PopSection(p, PopBand(queue, "medium_priority"), "low")
    /\ UNCHANGED <<crawlVars, now, bucketVars, limiterVars, clientVars, engine>>

PopLow(p) ==
    /\ qcall.pop[p] = "low"
    /\ PopSection(p, PopBand(queue, "low_priority"), "idle")
    /\ UNCHANGED <<crawlVars, now, bucketVars, limiterVars, clientVars, engine>>

NextQueueConc ==
    \/ ConcPush
    \/ BatchStart
    \/ BatchMedium
    \/ BatchLow
    \/ \E p \in Poppers : PopHigh(p)
    \/ \E p \in Poppers : PopMedium(p)
    \/ \E p \in Poppers : PopLow(p)

SpecQueueConc == InitQueueConc /\ [][NextQueueConc]_vars

\* C16: a pop that returns a Medium or Low task returns it while the High band
\* is empty, and a pop that returns a Low task returns it while the Medium band
\* is empty, also when pushes interleave with the pop.
C16_Original ==
    qhist.last.op = "pop" =>
        /\ qhist.last.task.priority \in {"Medium", "Low"} => qhist.last.before.high_priority = <<>>
        /\ qhist.last.task.priority = "Low" => qhist.last.before.medium_priority = <<>>

\* The added_at values of the tasks of a sequence.
Serials(tasks) == {tasks[k].added_at : k \in 1..Len(tasks)}

Held(q) == q.high_priority \o q.medium_priority \o q.low_priority

AllReturned == qcall.batch.pc = "idle" /\ \A p \in Poppers : qcall.pop[p] = "idle"

\* C18: under any interleaving of push, push_batch and pop calls every pushed
\* task is either still in the queue or was returned by exactly one pop, and
\* once all calls have returned total_size is the number of tasks pushed minus
\* the number of pops that returned a task.
C18_ConcurrentCallers ==
    /\ Serials(Held(queue)) \cup Serials(qhist.popped) = Serials(qhist.pushed)
    /\ Serials(Held(queue)) \cap Serials(qhist.popped) = {}
    /\ Cardinality(Serials(qhist.popped)) = Len(qhist.popped)
    /\ Cardinality(Serials(Held(queue))) = Len(Held(queue))
    /\ AllReturned => TotalSize(queue) = Len(qhist.pushed) - Len(qhist.popped)

C18_Witness ==
    /\ AllReturned
    /\ Len(qhist.pushed) >= 3
    /\ Len(qhist.popped) >= 2
    /\ qhist.nones >= 1
    /\ TotalSize(queue) >= 1
    /\ qhist.last.op = "pop"
    /\ qhist.last.task.priority = "Low"
    /\ qhist.last.before.high_priority # <<>>

\* ------------------------------------------------------------------------
\* SpecDedup: remove_duplicates on the queues that pushes can build
\* ------------------------------------------------------------------------
MaxBand == 3

DedupPuuids == {"a", "b"}

Bands == <<"high_priority", "medium_priority", "low_priority">>

PriorityOf == <<"High", "Medium", "Low">>

\* remove_duplicates_from_queue keeping, of the tasks of one puuid, the one
\* created last where the code keeps the one that comes first.
RemoveDuplicatesKeepLast(band) ==
    SelectSeq(band, LAMBDA t : \A j \in 1..Len(band) :
                                  band[j].puuid = t.puuid => band[j].added_at <= t.added_at)

\* The while loop of remove_duplicates_from_queue: pop_front, and push_back on
\* new_queue when seen.insert(puuid) says the puuid is new.
RECURSIVE DedupLoop(_, _, _)
DedupLoop(rest, seen, new_queue) ==
    IF rest = <<>> THEN new_queue
    ELSE IF Head(rest).puuid \notin seen
         THEN DedupLoop(Tail(rest), seen \cup {Head(rest).puuid}, Append(new_queue, Head(rest)))
         ELSE DedupLoop(Tail(rest), seen, new_queue)

RemoveDuplicatesFromQueue(band) == DedupLoop(band, {}, <<>>)

\* remove_duplicates: the three bands in turn.
RemoveDuplicates(q) ==
    [high_priority |-> RemoveDuplicatesFromQueue(q.high_priority),
     medium_priority |-> RemoveDuplicatesFromQueue(q.medium_priority),
     low_priority |-> RemoveDuplicatesFromQueue(q.low_priority)]

\* A band as pushes build it: the k-th task has puuid puuids[k], the band's
\* priority and its own creation time.
BandWith(b, puuids) ==
    [k \in 1..Len(puuids) |->
        [puuid |-> puuids[k], region |-> Na1, priority |-> PriorityOf[b], retries |-> 0,
         added_at |-> (b - 1) * (MaxBand + 1) + k]]

BandCases(b) ==
    UNION {{BandWith(b, puuids) : puuids \in [1..n -> DedupPuuids]} : n \in 0..MaxBand}

InitDedup ==
    /\ now = 0
    /\ CrawlUnused
    /\ BucketUnused
    /\ LimiterUnused
    /\ ClientUnused
    /\ \E h \in BandCases(1), m \in BandCases(2), l \in BandCases(3) :
          queue = [high_priority |-> h, medium_priority |-> m, low_priority |-> l]
    /\ qcall = NoQueueCalls
    /\ qhist = [NoQueueHistory EXCEPT !.phase = "mixed"]
    /\ engine = NewEngine

DedupRemoveDuplicates ==
    /\ queue' = RemoveDuplicates(queue)
    /\ qhist' = [qhist EXCEPT !.last = Last("remove_duplicates", NoTask, queue)]
    /\ UNCHANGED <<crawlVars, now, bucketVars, limiterVars, clientVars, qcall, engine>>

NextDedup == DedupRemoveDuplicates

SpecDedup == InitDedup /\ [][NextDedup]_vars

\* The positions of a band that hold the first task of their puuid.
FirstPositions(band) ==
    {i \in 1..Len(band) : \A j \in 1..(i - 1) : band[j].puuid # band[i].puuid}

\* The tasks at the given positions, in the order of the band.
TasksAt(band, positions) ==
    SelectSeq(band, LAMBDA t : \E i \in positions : band[i] = t)

\* C17: after remove_duplicates each band holds exactly the first task of each
\* puuid of that band, in the band's order; a second remove_duplicates changes
\* nothing; no task has moved to another band.
C17_FirstOccurrences ==
    qhist.last.op = "remove_duplicates" =>
        /\ \A b \in DOMAIN Bands :
              /\ queue[Bands[b]] = TasksAt(qhist.last.before[Bands[b]],
                                           FirstPositions(qhist.last.before[Bands[b]]))
              /\ Serials(queue[Bands[b]]) \subseteq Serials(qhist.last.before[Bands[b]])
              /\ \A k \in 1..Len(queue[Bands[b]]) : queue[Bands[b]][k].priority = PriorityOf[b]
        /\ RemoveDuplicates(queue) = queue

C17_Witness ==
    /\ qhist.last.op = "remove_duplicates"
    /\ Len(qhist.last.before.high_priority) = 3
    /\ qhist.last.before.high_priority[1].puuid = "a"
    /\ qhist.last.before.high_priority[2].puuid = "b"
    /\ qhist.last.before.high_priority[3].puuid = "a"
    /\ Len(queue.high_priority) = 2
    /\ qhist.last.before.medium_priority = queue.medium_priority
    /\ Len(queue.medium_priority) = 2
    /\ Len(queue.low_priority) = 1
    /\ queue.low_priority[1].puuid = "a"
    /\ Len(qhist.last.before.low_priority) = 2

\* ------------------------------------------------------------------------
\* SpecEngine: the crawler task of the CrawlerEngine and the seeding beside it
\* ------------------------------------------------------------------------
MaxEngineTasks == 3

\* `if task.retries < 3`
RetryLimit == 3

\* `if processed_count % 100 == 0`
CleanupPeriod == 100

Zeros(n) == [k \in 1..n |-> 0]

\* n tasks of one priority, created after the tasks created so far.
Fresh(n, priority) == BatchOf(Len(engine.created), [k \in 1..n |-> priority])

Remember(e, tasks) ==
    [e EXCEPT !.created = @ \o tasks,
              !.failures = @ \o Zeros(Len(tasks)),
              !.requeues = @ \o Zeros(Len(tasks))]

InitEngine ==
    /\ now = 0
    /\ CrawlUnused
    /\ BucketUnused
    /\ LimiterUnused
    /\ ClientUnused
    /\ queue = NewQueue
    /\ qcall = NoQueueCalls
    /\ qhist = [NoQueueHistory EXCEPT !.phase = "mixed"]
    /\ engine = NewEngine

\* process_featured_games_for_region: the new summoners are pushed as one batch
\* of High tasks, while the crawler task runs.
EngineSeeded(tasks) ==
    /\ queue' = PushBatch(queue, tasks)
    /\ engine' = Remember(engine, tasks)

EngineSeed ==
    /\ \E n \in 1..MaxBatch :
          /\ Len(engine.created) + n <= MaxEngineTasks
          /\ EngineSeeded(Fresh(n, "High"))
    /\ UNCHANGED <<crawlVars, now, bucketVars, limiterVars, clientVars, qcall, qhist>>

\* One lock section of the crawler task's pop.
EnginePopSection(res, next) ==
    IF res.task # NoTask
    THEN /\ queue' = res.queue
         /\ engine' = [engine EXCEPT !.pc = "processing", !.task = res.task]
    ELSE /\ queue' = queue
         /\ engine' = [engine EXCEPT !.pc = next]

\* is_empty() said no: pop begins with the high band.
EnginePopHigh ==
    /\ engine.pc = "idle"
    /\ ~IsEmpty(queue)
    /\ EnginePopSection(PopBand(queue, "high_priority"), "pop_medium")
    /\ UNCHANGED <<crawlVars, now, bucketVars, limiterVars, clientVars, qcall, qhist>>

EnginePopMedium ==
    /\ engine.pc = "pop_medium"
    /\ EnginePopSection(PopBand(queue, "medium_priority"), "pop_low")
    /\ UNCHANGED <<crawlVars, now, bucketVars, limiterVars, clientVars, qcall, qhist>>

EnginePopLow ==
    /\ engine.pc = "pop_low"
    /\ EnginePopSection(PopBand(queue, "low_priority"), "idle")
    /\ UNCHANGED <<crawlVars, now, bucketVars, limiterVars, clientVars, qcall, qhist>>

\* The periodic queue cleanup.
Cleanup(q, processed_count) ==
    IF processed_count % CleanupPeriod = 0 THEN RemoveDuplicates(q) ELSE q

Handled(e, outcome, q) ==
    [e EXCEPT !.pc = "idle", !.task = NoTask,
              !.last = [outcome |-> outcome, task |-> e.task, before |-> q]]

\* process_summoner returned Ok(new_tasks).
EngineProcessedOk(new_tasks) ==
    /\ queue' = Cleanup(PushBatch(queue, new_tasks), engine.processed_count + 1)
    /\ engine' = [Remember(Handled(engine, "ok", queue), new_tasks)
                    EXCEPT !.processed_count = @ + 1]

EngineProcessOk ==
    /\ engine.pc = "processing"
    /\ \E n \in 0..MaxBatch :
          /\ Len(engine.created) + n <= MaxEngineTasks
          /\ EngineProcessedOk(Fresh(n, "Low"))
    /\ UNCHANGED <<crawlVars, now, bucketVars, limiterVars, clientVars, qcall, qhist>>

\* The retry logic with a limit one higher: `task.retries <= 3`.
ShouldRetryInclusive(task) == task.retries <= RetryLimit

ShouldRetry(task) == task.retries < RetryLimit

\* The retry clone without the demotion.
RetryTaskSamePriority(task) == [task EXCEPT !.retries = (@ + 1) % U32]

\* The retry clone demoted to Medium only.
RetryTaskMedium(task) == [task EXCEPT !.retries = (@ + 1) % U32, !.priority = "Medium"]

\* retry_task = task.clone(); retry_task.retries += 1; retry_task.priority = Low
RetryTask(task) == [task EXCEPT !.retries = (@ + 1) % U32, !.priority = "Low"]

Requeue(q, task) == IF ShouldRetry(task) THEN Push(q, RetryTask(task)) ELSE q

Counted(e, task) ==
    [e EXCEPT !.failures[task.added_at] = @ + 1,
              !.requeues[task.added_at] = IF ShouldRetry(task) THEN @ + 1 ELSE @]

\* process_summoner returned Err(e).
EngineProcessErr ==
    /\ engine.pc = "processing"
    /\ queue' = Requeue(queue, engine.task)
    /\ engine' = Counted(Handled(engine, "err", queue), engine.task)
    /\ UNCHANGED <<crawlVars, now, bucketVars, limiterVars, clientVars, qcall, qhist>>

NextEngine ==
    \/ EngineSeed
    \/ EnginePopHigh
    \/ EnginePopMedium
    \/ EnginePopLow
    \/ EngineProcessOk
    \/ EngineProcessErr

SpecEngine == InitEngine /\ [][NextEngine]_vars

\* The step in which the processing of the popped task fails.
Fails == engine.pc = "processing" /\ engine'.last.outcome = "err" /\ engine'.pc = "idle"

\* C19 (every state): a task that has failed before is in the Low band, carries
\* priority Low and has as many retries as it has failures.
C19_RequeuedState ==
    /\ \A k \in 1..Len(Held(queue)) :
          /\ Held(queue)[k].retries = engine.failures[Held(queue)[k].added_at]
          /\ Held(queue)[k].retries > 0 =>
                 /\ Held(queue)[k].priority = "Low"
                 /\ Held(queue)[k].added_at \in Serials(queue.low_priority)
    /\ Cardinality(Serials(Held(queue))) = Len(Held(queue))

\* C19 (every step): when processing fails with retries < 3 the Low band gains
\* one clone of the task with retries + 1 and priority Low at its end, and the
\* other two bands are left as they are.
C19_RequeuedAction ==
    (Fails /\ engine.task.retries < RetryLimit) =>
        /\ queue'.low_priority =
              Append(queue.low_priority,
                     [puuid |-> engine.task.puuid, region |-> engine.task.region,
                      priority |-> "Low",
                      retries |-> engine.task.retries + 1, added_at |-> engine.task.added_at])
        /\ queue'.high_priority = queue.high_priority
        /\ queue'.medium_priority = queue.medium_priority

\* C19: a failed task with retries < 3 is appended once to the Low band with
\* retries + 1 whatever its priority was; a High task that has failed twice is
\* in the Low band with retries = 2.
C19_DemotedRetry == []C19_RequeuedState /\ [][C19_RequeuedAction]_vars

C19_Witness ==
    /\ engine.last.outcome = "err"
    /\ engine.pc = "idle"
    /\ engine.created[engine.last.task.added_at].priority = "High"
    /\ engine.last.task.retries = 1
    /\ engine.failures[engine.last.task.added_at] = 2
    /\ queue.low_priority # <<>>
    /\ queue.low_priority[Len(queue.low_priority)].added_at = engine.last.task.added_at
    /\ queue.low_priority[Len(queue.low_priority)].retries = 2
    /\ queue.high_priority # <<>>

\* C20 as stated: when the 3rd failure of a task occurs the task is not pushed
\* back onto the queue.
C20_Original ==
    [][(Fails /\ engine'.failures[engine.task.added_at] = 3) =>
           engine.task.added_at \notin Serials(Held(queue'))]_vars

\* C20 (every state): no task is pushed back more than 3 times or fails more
\* than 4 times, and a task that has failed 4 times is nowhere in the queue.
C20_DroppedState ==
    \A k \in 1..Len(engine.created) :
        /\ engine.requeues[k] <= RetryLimit
        /\ engine.failures[k] <= RetryLimit + 1
        /\ engine.failures[k] = RetryLimit + 1 =>
               (k \notin Serials(Held(queue)) /\ engine.task.added_at # k)

\* C20 (every step): the 1st, 2nd and 3rd failure of a task push it back, the
\* 4th leaves the queue as it is.
C20_DroppedAction ==
    Fails =>
        /\ engine'.failures[engine.task.added_at] <= RetryLimit =>
               /\ engine.task.added_at \in Serials(queue'.low_priority)
               /\ engine'.requeues[engine.task.added_at] = engine'.failures[engine.task.added_at]
        /\ engine'.failures[engine.task.added_at] = RetryLimit + 1 => queue' = queue

\* C20: a task that keeps failing is pushed back 3 times and dropped at its
\* 4th failure.
C20_DroppedAfterFourth == []C20_DroppedState /\ [][C20_DroppedAction]_vars

C20_Witness ==
    /\ engine.last.outcome = "err"
    /\ engine.last.task.retries = RetryLimit
    /\ engine.failures[engine.last.task.added_at] = RetryLimit + 1
    /\ engine.requeues[engine.last.task.added_at] = RetryLimit
    /\ engine.last.task.added_at \notin Serials(Held(queue))
    /\ queue = engine.last.before
    /\ ~IsEmpty(queue)

\* ------------------------------------------------------------------------
\* Database: the tables written by the worker, INSERT OR REPLACE and INSERT
\* ------------------------------------------------------------------------
MaxStoreCalls == 4

\* PRIMARY KEY and UNIQUE constraints of the schema, as sets of columns.
SummonerKeys == {{"puuid"}, {"summoner_id"}}
MatchKeys == {{"match_id"}}
ParticipantKeys == {{"id"}, {"match_id", "puuid"}}
TeamKeys == {{"id"}, {"match_id", "team_id"}}

\* The rows of a table that a new row collides with on one of the keys.
Conflicts(table, row, keys) ==
    {r \in table : \E key \in keys : \A column \in key : r[column] = row[column]}

\* Plain INSERT, used where INSERT OR REPLACE should be (no constraint is
\* looked at).
InsertPlain(table, row, keys) == table \cup {row}

\* INSERT OR REPLACE: the colliding rows are deleted, then the row is inserted.
InsertOrReplace(table, row, keys) == (table \ Conflicts(table, row, keys)) \cup {row}

InsertSummoner(st, summoner) ==
    [st EXCEPT !.summoners = InsertOrReplace(@, summoner, SummonerKeys)]

InsertMatch(st, match) ==
    [st EXCEPT !.matches = InsertOrReplace(@, match, MatchKeys)]

\* A row of a table with `id INTEGER PRIMARY KEY AUTOINCREMENT`, inserted with
\* id: None.
WithId(row, id) == [column \in DOMAIN row \cup {"id"} |-> IF column = "id" THEN id ELSE row[column]]

InsertParticipant(st, participant) ==
    [st EXCEPT !.participants = InsertOrReplace(@, WithId(participant, st.seq.participants + 1),
                                                ParticipantKeys),
               !.seq.participants = @ + 1]

\* insert_team written as insert_ban is: a plain INSERT.
InsertTeamPlain(st, team) ==
    [st EXCEPT !.teams = @ \cup {WithId(team, st.seq.teams + 1)},
               !.seq.teams = @ + 1]

InsertTeam(st, team) ==
    [st EXCEPT !.teams = InsertOrReplace(@, WithId(team, st.seq.teams + 1), TeamKeys),
               !.seq.teams = @ + 1]

\* insert_ban is a plain INSERT: only the id is a key.
InsertBan(st, ban) ==
    [st EXCEPT !.bans = @ \cup {WithId(ban, st.seq.bans + 1)},
               !.seq.bans = @ + 1]

SummonerExists(st, puuid) == Cardinality({r \in st.summoners : r.puuid = puuid}) > 0

\* match_exists that wants more than one row.
MatchExistsTwice(st, match_id) == Cardinality({r \in st.matches : r.match_id = match_id}) > 1

MatchExists(st, match_id) == Cardinality({r \in st.matches : r.match_id = match_id}) > 0

GetSummonersCount(st) == Cardinality(st.summoners)

GetMatchesCount(st) == Cardinality(st.matches)

GetParticipantsCount(st) == Cardinality(st.participants)

\* One write on the Database, by the name of the method.
Write(op, row) == [op |-> op, row |-> row]

ApplyWrite(st, w) ==
    CASE w.op = "insert_summoner" -> InsertSummoner(st, w.row)
      [] w.op = "insert_match" -> InsertMatch(st, w.row)
      [] w.op = "insert_team" -> InsertTeam(st, w.row)
      [] w.op = "insert_ban" -> InsertBan(st, w.row)
      [] w.op = "insert_participant" -> InsertParticipant(st, w.row)

\* The number of rows of the table a write goes to.
CountFor(st, op) ==
    CASE op = "insert_summoner" -> GetSummonersCount(st)
      [] op = "insert_match" -> GetMatchesCount(st)
      [] op = "insert_team" -> Cardinality(st.teams)
      [] op = "insert_ban" -> Cardinality(st.bans)
      [] op = "insert_participant" -> GetParticipantsCount(st)

\* ------------------------------------------------------------------------
\* SpecStore: any sequence of writes on the Database
\* ------------------------------------------------------------------------
StoreMatchIds == {"M1", "M2"}

\* The players written: two puuids; the summoner_id is the one of the profile
\* or, for a profile without the `id` field, the empty string that
\* fetch_and_store_summoner puts in its place, which two players then share.
SummonerRows ==
    {[puuid |-> p[1], summoner_id |-> p[2], summoner_name |-> name,
      summoner_level |-> IF name = "x" THEN 30 ELSE 31, region |-> Na1] :
        p \in {<<"a", "">>, <<"b", "s2">>, <<"b", "">>}, name \in {"x", "y"}}

MatchRows ==
    {[match_id |-> m, game_mode |-> mode] : m \in StoreMatchIds, mode \in {"CLASSIC", "ARAM"}}

TeamRows ==
    {[match_id |-> p[1], team_id |-> p[2], win |-> TRUE] :
        p \in {<<"M1", 100>>, <<"M1", 200>>, <<"M2", 100>>}}

ParticipantRows ==
    {[match_id |-> p[1], puuid |-> p[2], team_id |-> 100] :
        p \in {<<"M1", "a">>, <<"M1", "b">>, <<"M2", "a">>}}

BanRows == {[match_id |-> "M1", team_id |-> 100, champion_id |-> 7]}

InitStore ==
    /\ now = 0
    /\ BucketUnused
    /\ LimiterUnused
    /\ ClientUnused
    /\ QueueUnused
    /\ store = NewStore
    /\ shist = NoStoreHistory
    /\ worker = NoWorker
    /\ life = NewLife
    /\ boot = NoBoot
    /\ locks = NoLocks

\* A call of one of the insert methods: it writes, or the Database returns an
\* error and nothing is written.
StoreCalled(w, ok) ==
    /\ store' = IF ok THEN ApplyWrite(store, w) ELSE store
    /\ shist' = [last |-> [op |-> w.op, row |-> w.row, ok |-> ok,
                           count |-> CountFor(IF ok THEN ApplyWrite(store, w) ELSE store, w.op)],
                 prev |-> shist.last,
                 calls |-> shist.calls + 1]

StoreInsert(op, rows) ==
    /\ shist.calls < MaxStoreCalls
    /\ \E row \in rows : StoreCalled(Write(op, row), TRUE)
    /\ UNCHANGED <<now, bucketVars, limiterVars, clientVars, queueVars, worker, life, boot, locks>>

StoreInsertSummoner == StoreInsert("insert_summoner", SummonerRows)

StoreInsertMatch == StoreInsert("insert_match", MatchRows)

StoreInsertTeam == StoreInsert("insert_team", TeamRows)

StoreInsertBan == StoreInsert("insert_ban", BanRows)

StoreInsertParticipant == StoreInsert("insert_participant", ParticipantRows)

\* execute() returned an error.
StoreError ==
    /\ shist.calls < MaxStoreCalls
    /\ StoreCalled(Write("insert_match", CHOOSE r \in MatchRows : TRUE), FALSE)
    /\ UNCHANGED <<now, bucketVars, limiterVars, clientVars, queueVars, worker, life, boot, locks>>

NextStore ==
    \/ StoreInsertSummoner
    \/ StoreInsertMatch
    \/ StoreInsertTeam
    \/ StoreInsertBan
    \/ StoreInsertParticipant
    \/ StoreError

SpecStore == InitStore /\ [][NextStore]_vars

\* The last two calls wrote the same player, but for its name and level.
SamePlayerTwice ==
    /\ shist.last.op = "insert_summoner" /\ shist.last.ok
    /\ shist.prev.op = "insert_summoner" /\ shist.prev.ok
    /\ shist.last.row.puuid = shist.prev.row.puuid
    /\ shist.last.row.summoner_id = shist.prev.row.summoner_id

SameMatchTwice ==
    /\ shist.last.op = "insert_match" /\ shist.last.ok
    /\ shist.prev.op = "insert_match" /\ shist.prev.ok
    /\ shist.last.row.match_id = shist.prev.row.match_id

\* C25: after insert_summoner twice for the same puuid, also with another name
\* and level, summoner_exists is true and get_summoners_count is what it was
\* after the first insert; the same for insert_match and get_matches_count.
C25_UpsertIdempotent ==
    /\ SamePlayerTwice =>
          /\ SummonerExists(store, shist.last.row.puuid)
          /\ GetSummonersCount(store) = shist.prev.count
          /\ shist.last.row \in store.summoners
    /\ SameMatchTwice =>
          /\ MatchExists(store, shist.last.row.match_id)
          /\ GetMatchesCount(store) = shist.prev.count
          /\ shist.last.row \in store.matches

C25_Witness ==
    /\ SamePlayerTwice
    /\ shist.last.row.summoner_name # shist.prev.row.summoner_name
    /\ shist.last.row.summoner_level # shist.prev.row.summoner_level
    /\ GetSummonersCount(store) = 2

C25_WitnessMatch ==
    /\ SameMatchTwice
    /\ shist.last.row.game_mode # shist.prev.row.game_mode
    /\ GetMatchesCount(store) = 2

\* C26: whatever writes follow insert_match, participants holds at most one row
\* for a (match_id, puuid) and teams at most one row for a (match_id, team_id).
C26_UniqueRows ==
    /\ \A r1, r2 \in store.participants :
          (r1.match_id = r2.match_id /\ r1.puuid = r2.puuid) => r1 = r2
    /\ \A r1, r2 \in store.teams :
          (r1.match_id = r2.match_id /\ r1.team_id = r2.team_id) => r1 = r2

C26_Witness ==
    /\ MatchExists(store, "M1")
    /\ store.seq.participants = 2
    /\ Cardinality(store.participants) = 1
    /\ store.seq.teams = 1
    /\ \E r \in store.participants : r.match_id = "M1" /\ r.id = 2

\* ------------------------------------------------------------------------
\* SpecWorker: the crawler task with CrawlerWorker::process_summoner, the
\* Riot API answering or failing, the Database writing or failing
\* ------------------------------------------------------------------------
MaxWorkerCalls == 1

\* Option<T>: None is <<>>, Some(x) is <<x>>.
UnwrapOr(option, default) == IF option = <<>> THEN default ELSE option[1]

\* What the API may answer for a summoner: with or without the `id` field.
SummonerAnswers(puuid) ==
    {[puuid |-> puuid, id |-> id, summoner_level |-> 30] : id \in {<<>>, <<puuid>>}}

\* What the API may answer for a match list.
MatchLists == {<<"M1">>, <<"M1", "M2">>}

\* What the API answers for a match: two teams with their bans (a champion_id
\* of 0 or -1 is no ban) and two participants.
MatchData(match_id) ==
    [match_id |-> match_id, game_mode |-> "CLASSIC",
     teams |-> <<[team_id |-> 100, win |-> TRUE, bans |-> <<7, 0>>],
                 [team_id |-> 200, win |-> FALSE, bans |-> <<-1>>]>>,
     participants |-> IF match_id = "M1"
                      THEN <<[puuid |-> "a", team_id |-> 100], [puuid |-> "b", team_id |-> 200]>>
                      ELSE <<[puuid |-> "b", team_id |-> 100], [puuid |-> "c", team_id |-> 200]>>]

DbSummoner(summoner, region) ==
    [puuid |-> summoner.puuid, summoner_id |-> UnwrapOr(summoner.id, ""),
     summoner_name |-> "x", summoner_level |-> summoner.summoner_level, region |-> region]

RECURSIVE Concat(_)
Concat(seqs) == IF seqs = <<>> THEN <<>> ELSE Head(seqs) \o Concat(Tail(seqs))

\* `if ban.champion_id > 0 { insert_ban }`
BanWrites(match_id, team) ==
    LET kept == SelectSeq(team.bans, LAMBDA champion_id : champion_id > 0)
    IN  [k \in 1..Len(kept) |->
            Write("insert_ban", [match_id |-> match_id, team_id |-> team.team_id,
                                 champion_id |-> kept[k]])]

TeamWrites(match_id, team) ==
    <<Write("insert_team", [match_id |-> match_id, team_id |-> team.team_id, win |-> team.win])>>
        \o BanWrites(match_id, team)

\* The writes of fetch_and_store_match in the order it makes them: the match,
\* each team followed by its bans, then the participants.
MatchWrites(data) ==
    <<Write("insert_match", [match_id |-> data.match_id, game_mode |-> data.game_mode])>>
        \o Concat([t \in 1..Len(data.teams) |-> TeamWrites(data.match_id, data.teams[t])])
        \o [p \in 1..Len(data.participants) |->
               Write("insert_participant",
                     [match_id |-> data.match_id, puuid |-> data.participants[p].puuid,
                      team_id |-> data.participants[p].team_id])]

\* The first n writes of a sequence, each its own statement on the connection.
RECURSIVE ApplyWrites(_, _, _)
ApplyWrites(st, writes, n) ==
    IF n = 0 THEN st ELSE ApplyWrite(ApplyWrites(st, writes, n - 1), writes[n])

\* The participants put into the discovered set.
Discovered(data) == {data.participants[p].puuid : p \in 1..Len(data.participants)}

\* A discovered summoner as a task of the same priority as the one processed.
DiscoveredTaskSamePriority(puuid, task) ==
    [puuid |-> puuid, region |-> task.region, priority |-> task.priority,
     retries |-> 0, added_at |-> 0]

\* `SummonerTask { puuid, region: task.region.clone(), priority: Low,
\* added_at: Utc::now(), retries: 0 }`; added_at is given when the engine takes
\* the task.
DiscoveredTask(puuid, task) ==
    [puuid |-> puuid, region |-> task.region, priority |-> "Low",
     retries |-> 0, added_at |-> 0]

\* The filter: `Ok(exists) => !exists, Err(_) => true`; unchecked are the puuids
\* for which summoner_exists returned an error.
Kept(st, new_summoners, unchecked) ==
    {p \in new_summoners : p \in unchecked \/ ~SummonerExists(st, p)}

\* The orders in which a HashSet may be iterated.
Orders(set) ==
    {s \in [1..Cardinality(set) -> set] : \A i, j \in DOMAIN s : i # j => s[i] # s[j]}

\* The engine takes the returned tasks: added_at orders them after the tasks
\* created so far.
Stamp(tasks, first) == [k \in 1..Len(tasks) |-> [tasks[k] EXCEPT !.added_at = first + k]]

\* Database::new opens the file at database_url and creates the tables that
\* are not there: the file is new, or it holds what an earlier run stored,
\* here the match M2 with its teams, ban and participants.
OpenedStores ==
    {NewStore,
     ApplyWrites(NewStore, MatchWrites(MatchData("M2")), Len(MatchWrites(MatchData("M2"))))}

InitWorker ==
    /\ now = 0
    /\ BucketUnused
    /\ LimiterUnused
    /\ ClientUnused
    /\ queue = NewQueue
    /\ qcall = NoQueueCalls
    /\ qhist = [NoQueueHistory EXCEPT !.phase = "mixed"]
    /\ engine = NewEngine
    /\ store \in OpenedStores
    /\ shist = NoStoreHistory
    /\ worker = NoWorker
    /\ life = NewLife
    /\ boot = NoBoot
    /\ locks = NoLocks

workerRest == <<now, bucketVars, limiterVars, clientVars, qcall, qhist, shist, life, boot,
                locks>>

\* process_featured_games_for_region(region): one High task of that region.
WorkerSeed ==
    /\ Len(engine.created) < MaxWorkerCalls
    /\ \E region \in {Na1, Kr} :
          EngineSeeded(<<[NewTask(Len(engine.created) + 1, "High") EXCEPT !.region = region]>>)
    /\ UNCHANGED <<workerRest, store, worker>>

WorkerPopHigh == EnginePopHigh

WorkerPopMedium == EnginePopMedium

WorkerPopLow == EnginePopLow

\* process_summoner begins: fetch_and_store_summoner, whose error is logged.
WorkerProfiled(stored, st) ==
    /\ store' = st
    /\ worker' = [NoWorker EXCEPT !.pc = "list", !.calls = worker.calls + 1,
                                  !.task = engine.task,
                                  !.failed = IF stored THEN {} ELSE {"profile"}]

WorkerProfile ==
    /\ engine.pc = "processing"
    /\ worker.pc = "idle"
    /\ worker.calls < MaxWorkerCalls
    /\ \/ WorkerProfiled(FALSE, store)
       \/ \E summoner \in SummonerAnswers(engine.task.puuid) :
             WorkerProfiled(TRUE, InsertSummoner(store, DbSummoner(summoner, engine.task.region)))
    /\ UNCHANGED <<workerRest, queue, engine>>

\* get_match_list_by_puuid: Err => return Ok(Vec::new()).
WorkerList ==
    /\ worker.pc = "list"
    /\ \/ worker' = [worker EXCEPT !.pc = "returned", !.failed = @ \cup {"list"},
                                   !.result = [kind |-> "ok", tasks |-> <<>>]]
       \/ \E match_ids \in MatchLists :
             worker' = [worker EXCEPT !.pc = "matches", !.match_ids = match_ids, !.i = 1]
    /\ UNCHANGED <<workerRest, queue, engine, store>>

\* The loop goes on to the next match id, or to the filter after the last.
NextMatch(w) ==
    [w EXCEPT !.i = @ + 1, !.pc = IF w.i = Len(w.match_ids) THEN "filter" ELSE "matches"]

\* A failed fetch_and_store_match ends process_summoner with its error.
OnMatchErrorAbort(w, match_id) ==
    [w EXCEPT !.pc = "returned", !.failed = @ \cup {match_id},
              !.result = [kind |-> "err", tasks |-> <<>>]]

\* `Err(e) => log::warn!(...)`: the loop continues.
OnMatchError(w, match_id) == NextMatch([w EXCEPT !.failed = @ \cup {match_id}])

OnMatchOk(w, data) ==
    NextMatch([w EXCEPT !.new_summoners = @ \cup Discovered(data),
                        !.ingested = @ \cup {data.match_id}])

\* fetch_and_store_match: the API fails (n = -1), or the first n writes are made
\* and the next one fails, or all the writes are made.
FetchAndStoreMatch(data, writes) ==
    \E n \in -1..Len(writes) :
        IF n = Len(writes)
        THEN /\ store' = ApplyWrites(store, writes, n)
             /\ worker' = OnMatchOk(worker, data)
        ELSE /\ store' = ApplyWrites(store, writes, IF n < 0 THEN 0 ELSE n)
             /\ worker' = OnMatchError(worker, data.match_id)

\* One round of `for match_id in match_ids`.
WorkerMatch ==
    /\ worker.pc = "matches"
    /\ \/ /\ worker' = [worker EXCEPT !.pc = "returned", !.failed = @ \cup {"match_exists"},
                                      !.result = [kind |-> "err", tasks |-> <<>>]]
          /\ store' = store
       \/ /\ MatchExists(store, worker.match_ids[worker.i])
          /\ worker' = NextMatch(worker)
          /\ store' = store
       \/ /\ ~MatchExists(store, worker.match_ids[worker.i])
          /\ FetchAndStoreMatch(MatchData(worker.match_ids[worker.i]),
                                MatchWrites(MatchData(worker.match_ids[worker.i])))
    /\ UNCHANGED <<workerRest, queue, engine>>

\* The discovered summoners are filtered and become tasks.
WorkerFilter ==
    /\ worker.pc = "filter"
    /\ \E unchecked \in SUBSET worker.new_summoners :
       \E order \in Orders(Kept(store, worker.new_summoners, unchecked)) :
          worker' = [worker EXCEPT
                        !.pc = "returned", !.unchecked = unchecked,
                        !.result = [kind |-> "ok",
                                    tasks |-> [k \in DOMAIN order |->
                                                  DiscoveredTask(order[k], worker.task)]]]
    /\ UNCHANGED <<workerRest, queue, engine, store>>

\* The crawler task's `Ok(new_tasks) =>` arm.
WorkerReturnedOk ==
    /\ worker.pc = "returned"
    /\ worker.result.kind = "ok"
    /\ EngineProcessedOk(Stamp(worker.result.tasks, Len(engine.created)))
    /\ worker' = [worker EXCEPT !.pc = "idle"]
    /\ UNCHANGED <<workerRest, store>>

\* The crawler task's `Err(e) =>` arm.
WorkerReturnedErr ==
    /\ worker.pc = "returned"
    /\ worker.result.kind = "err"
    /\ queue' = Requeue(queue, engine.task)
    /\ engine' = Counted(Handled(engine, "err", queue), engine.task)
    /\ worker' = [worker EXCEPT !.pc = "idle"]
    /\ UNCHANGED <<workerRest, store>>

NextWorker ==
    \/ WorkerSeed
    \/ WorkerPopHigh
    \/ WorkerPopMedium
    \/ WorkerPopLow
    \/ WorkerProfile
    \/ WorkerList
    \/ WorkerMatch
    \/ WorkerFilter
    \/ WorkerReturnedOk
    \/ WorkerReturnedErr

SpecWorker == InitWorker /\ [][NextWorker]_vars

\* The last process_summoner call has returned and the crawler task has
\* handled its result.
WorkerHandled ==
    /\ worker.pc = "idle"
    /\ worker.calls > 0
    /\ engine.last.task = worker.task

\* C21 (as stated): when the match list fetch fails, process_summoner returns
\* the error with no discoveries, and the crawler task counts a failure of the
\* task and requeues it demoted.
C21_Original ==
    /\ (worker.pc = "returned" /\ "list" \in worker.failed) =>
          worker.result = [kind |-> "err", tasks |-> <<>>]
    /\ (WorkerHandled /\ "list" \in worker.failed) =>
          /\ engine.last.outcome = "err"
          /\ engine.failures[worker.task.added_at] > 0

\* The match list fetch failed, and the crawler task took the call as a
\* success: processed_count is 1, nothing is requeued.
C21_Lost ==
    /\ WorkerHandled
    /\ "list" \in worker.failed
    /\ engine.last.outcome = "ok"
    /\ engine.processed_count = 1
    /\ engine.failures[worker.task.added_at] = 0
    /\ IsEmpty(queue)

\* The match ids of the list before position i.
Passed(w) == {w.match_ids[k] : k \in 1..(w.i - 1)}

\* C22 (every state): the call ends with an error only when match_exists fails;
\* when the loop is over, every match id of the list was ingested, or had its
\* fetch fail, or was in the Database already; an ingested match has its row
\* and its participants are in the discovered set.
C22_State ==
    /\ (worker.pc = "returned" /\ "match_exists" \notin worker.failed) =>
          worker.result.kind = "ok"
    /\ (worker.pc = "filter" \/ (worker.pc = "returned" /\ worker.i > Len(worker.match_ids))) =>
          \A k \in 1..Len(worker.match_ids) :
              \/ worker.match_ids[k] \in worker.ingested
              \/ worker.match_ids[k] \in worker.failed
              \/ MatchExists(store, worker.match_ids[k])
    /\ \A m \in worker.ingested :
          /\ MatchExists(store, m)
          /\ Discovered(MatchData(m)) \subseteq worker.new_summoners

\* C22 (every step): whether the profile is stored or not, the call goes on to
\* fetch the match list; a step in which the fetch of a match fails moves on to
\* the next match id, or to the filter after the last, and ends nothing.
C22_Step ==
    /\ (worker.pc = "idle" /\ worker'.pc # "idle") => worker'.pc = "list"
    /\ (worker.pc = "matches" /\ worker'.failed \ worker.failed \subseteq {"M1", "M2"}
            /\ worker'.failed # worker.failed) =>
          /\ worker'.i = worker.i + 1
          /\ worker'.pc = IF worker.i < Len(worker.match_ids) THEN "matches" ELSE "filter"
          /\ worker'.result.kind = "none"
          /\ worker'.new_summoners = worker.new_summoners

\* C22: a failed profile fetch does not abort the task, a failed fetch of a
\* match skips only that match, and the task is reported as successful.
C22_FailuresSkipped == []C22_State /\ [][C22_Step]_vars

\* The profile and the first match failed, the second match was ingested and
\* its participants came back as tasks.
C22_Witness ==
    /\ worker.pc = "returned"
    /\ worker.result.kind = "ok"
    /\ worker.failed = {"profile", "M1"}
    /\ worker.ingested = {"M2"}
    /\ Len(worker.result.tasks) = 2

\* What C23 says of every returned task but for the filter.
DiscoveredShape(t) ==
    /\ t.priority = "Low"
    /\ t.retries = 0
    /\ t.region = worker.task.region
    /\ \E m \in worker.ingested : t.puuid \in Discovered(MatchData(m))

Returned == worker.pc = "returned" /\ worker.result.kind = "ok"

\* C23 (as stated): every returned task has priority Low, retries 0, the region
\* of the triggering task, is a participant of a match ingested in this call,
\* and its puuid is not a row of summoners.
C23_Original ==
    Returned =>
        \A k \in 1..Len(worker.result.tasks) :
            /\ DiscoveredShape(worker.result.tasks[k])
            /\ ~SummonerExists(store, worker.result.tasks[k].puuid)

\* C23 (amended): every returned task has priority Low, retries 0, the region
\* of the triggering task, is a participant of a match ingested in this call,
\* and its puuid is not a row of summoners or summoner_exists failed for it;
\* no puuid is returned twice, and every discovered puuid that is not a row
\* is returned.
C23_Discoveries ==
    Returned =>
        /\ \A k \in 1..Len(worker.result.tasks) :
              /\ DiscoveredShape(worker.result.tasks[k])
              /\ \/ ~SummonerExists(store, worker.result.tasks[k].puuid)
                 \/ worker.result.tasks[k].puuid \in worker.unchecked
        /\ \A j, k \in 1..Len(worker.result.tasks) :
              worker.result.tasks[j].puuid = worker.result.tasks[k].puuid => j = k
        /\ "list" \notin worker.failed =>
              \A p \in worker.new_summoners :
                  ~SummonerExists(store, p) =>
                      \E k \in 1..Len(worker.result.tasks) : worker.result.tasks[k].puuid = p

\* A High task of region kr was processed; its own puuid is a row of summoners
\* and is returned because the check failed, beside one that is not a row.
C23_Witness ==
    /\ Returned
    /\ worker.task.priority = "High"
    /\ worker.task.region = Kr
    /\ Len(worker.result.tasks) = 2
    /\ \E k \in 1..2 :
          /\ worker.result.tasks[k].puuid = worker.task.puuid
          /\ SummonerExists(store, worker.task.puuid)
          /\ worker.task.puuid \in worker.unchecked
    /\ \E k \in 1..2 : ~SummonerExists(store, worker.result.tasks[k].puuid)

\* The rows a write would leave in its table, whatever the id.
Written(st, w) ==
    CASE w.op = "insert_team" ->
            \E r \in st.teams : r.match_id = w.row.match_id /\ r.team_id = w.row.team_id
      [] w.op = "insert_participant" ->
            \E r \in st.participants : r.match_id = w.row.match_id /\ r.puuid = w.row.puuid
      [] OTHER -> TRUE

\* C24 (as stated): in every state a match row implies all the team rows and
\* all the participant rows of that match.
C24_Original ==
    \A m \in store.matches :
        \A k \in 1..Len(MatchWrites(MatchData(m.match_id))) :
            Written(store, MatchWrites(MatchData(m.match_id))[k])

\* The call is over, the match row of M1 is there with one team and without
\* participants, and match_exists will skip M1 from now on.
C24_Torn ==
    /\ worker.pc = "idle"
    /\ worker.calls > 0
    /\ MatchExists(store, "M1")
    /\ Cardinality(store.teams) = 1
    /\ store.participants = {}

\* ------------------------------------------------------------------------
\* SpecLife: CrawlerEngine::start and stop, the running flag and the four
\* loops that start() joins
\* ------------------------------------------------------------------------
MaxStops == 1
MaxSeeds == 1

\* The summoners a Database opened on an existing file may hold.
StoredSummoners ==
    {{}, {[puuid |-> "a", summoner_id |-> "a", summoner_name |-> "x",
           summoner_level |-> 30, region |-> Na1]}}

\* get_existing_summoners_for_update(limit): `SELECT puuid, region FROM
\* summoners ORDER BY updated_at ASC LIMIT ?`; all the rows when there are no
\* more than limit.
GetExistingSummonersForUpdate(st, limit) ==
    IF Cardinality(st.summoners) <= limit
    THEN {<<r.puuid, r.region>> : r \in st.summoners}
    ELSE {}

\* The participants of the featured games (or the master league entries) of a
\* region, as the API may answer.
FeaturedAnswers == {<<>>, <<"b">>, <<"a", "b">>}

\* extract_summoners_from_featured_games: `Ok(true) => continue`, else a High
\* task of the region.
FeaturedTasks(st, puuids, region, first) ==
    LET fresh == SelectSeq(puuids, LAMBDA p : ~SummonerExists(st, p))
    IN  [k \in 1..Len(fresh) |->
            [puuid |-> fresh[k], region |-> region, priority |-> "High",
             retries |-> 0, added_at |-> first + k]]

\* process_featured_games_for_region: push_batch when the batch is not empty.
Seeded(l, tasks) ==
    /\ queue' = PushBatch(queue, tasks)
    /\ life' = [l EXCEPT !.pushed = @ \o tasks]

InitLife ==
    /\ now = 0
    /\ BucketUnused
    /\ LimiterUnused
    /\ ClientUnused
    /\ QueueUnused
    /\ store \in {[NewStore EXCEPT !.summoners = rows] : rows \in StoredSummoners}
    /\ shist = NoStoreHistory
    /\ worker = NoWorker
    /\ life = NewLife
    /\ boot = NoBoot
    /\ locks = NoLocks

lifeRest == <<now, bucketVars, limiterVars, clientVars, qcall, qhist, engine, store, shist, worker,
              boot, locks>>

\* start() with the flag set without being looked at.
StartLockUnchecked(c) ==
    /\ life.start[c] = "idle"
    /\ life' = [life EXCEPT !.start[c] = "seeding", !.running = TRUE]
    /\ UNCHANGED <<lifeRest, queue>>

\* start(): the check and the set of running in one section of the write lock.
StartLock(c) ==
    /\ life.start[c] = "idle"
    /\ life' = IF life.running
               THEN [life EXCEPT !.start[c] = "returned", !.skipped = @ \cup {c}]
               ELSE [life EXCEPT !.start[c] = "seeding", !.running = TRUE]
    /\ UNCHANGED <<lifeRest, queue>>

\* start(): seed_with_featured_games for the region, then the four loops are
\* created and joined.
StartSeed(c) ==
    /\ life.start[c] = "seeding"
    /\ \E puuids \in FeaturedAnswers :
          /\ Len(life.pushed) + Len(FeaturedTasks(store, puuids, Na1, 0)) <= MaxSeeds
          /\ Seeded([life EXCEPT !.start[c] = "joined",
                                 !.loops[c] = [l \in Loops |-> "tick"]],
                    FeaturedTasks(store, puuids, Na1, Len(life.pushed)))
    /\ UNCHANGED lifeRest

\* A loop that goes on whatever the flag says.
ObservedIgnored(running) == "work"

\* `if !*running.read().await { break }`, `while *running.read().await`
Observed(running) == IF running THEN "work" ELSE "exited"

\* The health check and the state save only read the queue and the Database
\* and log or save what they read: their round is over with the tick.
AfterTick(l, observed) ==
    IF l \in {"health_check", "state_save"} /\ observed = "work" THEN "tick" ELSE observed

\* interval.tick() has completed, or the crawler task is at the head of its
\* while loop: the flag is read.
LoopTick(c, l) ==
    /\ life.loops[c][l] = "tick"
    /\ life' = [life EXCEPT !.loops[c][l] = AfterTick(l, Observed(life.running))]
    /\ UNCHANGED <<lifeRest, queue>>

\* The featured games task refreshes the featured games of the region.
FeaturedWork(c) ==
    /\ life.loops[c]["featured_games"] = "work"
    /\ \E puuids \in FeaturedAnswers :
          /\ Len(life.pushed) + Len(FeaturedTasks(store, puuids, Na1, 0)) <= MaxSeeds
          /\ Seeded([life EXCEPT !.loops[c]["featured_games"] = "tick"],
                    FeaturedTasks(store, puuids, Na1, Len(life.pushed)))
    /\ UNCHANGED lifeRest

\* One round of the crawler task: sleep on an empty queue, else pop a task and
\* process it; process_summoner answers Ok with no new task.
CrawlerWork(c) ==
    /\ life.loops[c]["crawler"] = "work"
    /\ IF IsEmpty(queue)
       THEN /\ queue' = queue
            /\ life' = [life EXCEPT !.loops[c]["crawler"] = "tick"]
       ELSE /\ queue' = Pop(queue).queue
            /\ life' = [life EXCEPT !.loops[c]["crawler"] = "tick", !.popped = 1]
    /\ UNCHANGED lifeRest

\* try_join! completes when the four loops have returned.
StartReturn(c) ==
    /\ life.start[c] = "joined"
    /\ \A l \in Loops : life.loops[c][l] = "exited"
    /\ life' = [life EXCEPT !.start[c] = "returned"]
    /\ UNCHANGED <<lifeRest, queue>>

\* stop(): running is set to false under the write lock.
Stop ==
    /\ life.stops < MaxStops
    /\ life' = [life EXCEPT !.running = FALSE, !.stops = @ + 1]
    /\ UNCHANGED <<lifeRest, queue>>

NextLife ==
    \/ \E c \in Callers : StartLock(c)
    \/ \E c \in Callers : StartSeed(c)
    \/ \E c \in Callers, l \in Loops : LoopTick(c, l)
    \/ \E c \in Callers : FeaturedWork(c)
    \/ \E c \in Callers : CrawlerWork(c)
    \/ \E c \in Callers : StartReturn(c)
    \/ Stop

SpecLife == InitLife /\ [][NextLife]_vars

\* The scheduler polls every future that can go on: a tick completes, the work
\* of a round (an HTTP call, a sleep) finishes, the seeding and the join end.
FairLife ==
    /\ \A c \in Callers : WF_vars(StartSeed(c)) /\ WF_vars(StartReturn(c))
    /\ \A c \in Callers : WF_vars(FeaturedWork(c)) /\ WF_vars(CrawlerWork(c))
    /\ \A c \in Callers : \A l \in Loops : WF_vars(LoopTick(c, l))

SpecLifeFair == InitLife /\ [][NextLife]_vars /\ FairLife

\* The callers whose start() has seeded or is seeding and has not returned.
Started == {c \in Callers : life.start[c] \in {"seeding", "joined"}}

\* The callers whose loops exist and have not all returned.
Looping == {c \in Callers : \E l \in Loops : life.loops[c][l] \in {"tick", "work"}}

\* C27 (every state): while stop has not been called, at most one start call is
\* past the flag and at most one set of loops runs; a call that found running
\* true has no loops and has returned.
C27_State ==
    /\ life.stops = 0 =>
          /\ Cardinality(Started) <= 1
          /\ Cardinality(Looping) <= 1
          /\ Started # {} => life.running
    /\ \A c \in life.skipped :
          /\ life.start[c] = "returned"
          /\ \A l \in Loops : life.loops[c][l] = "none"

\* C27 (every step): a start call that finds running false sets it and goes on
\* to seed; one that finds running true returns with the queue, the loops and
\* the flag as they were.
C27_Step ==
    \A c \in Callers :
        (life.start[c] = "idle" /\ life'.start[c] # "idle") =>
            IF life.running
            THEN /\ life'.start[c] = "returned"
                 /\ life'.running
                 /\ life'.loops = life.loops
                 /\ life'.pushed = life.pushed
                 /\ queue' = queue
            ELSE /\ life'.start[c] = "seeding"
                 /\ life'.running

\* C27: start sets running from false to true atomically, a start call made
\* while running is true returns without seeding and without loops, and
\* concurrent start calls leave at most one set of loops running.
C27_OneStart == []C27_State /\ [][C27_Step]_vars

\* Two start calls and no stop: caller 1 has seeded and runs its loops, caller 2
\* has returned at once.
C27_Witness ==
    /\ life.stops = 0
    /\ life.start[1] = "joined"
    /\ life.skipped = {2}
    /\ Len(life.pushed) = 1
    /\ life.loops[1]["crawler"] = "work"

\* No start call is seeding or joined: every start() has returned.
Quiet == \A c \in Callers : life.start[c] \in {"idle", "returned"}

\* C28 (every step): a loop that reads running = false at its tick exits, and a
\* loop that has exited does no more rounds.
C28_Step ==
    \A c \in Callers : \A l \in Loops :
        /\ (life.loops[c][l] = "tick" /\ ~life.running /\ life'.loops[c][l] # "tick") =>
              life'.loops[c][l] = "exited"
        /\ life.loops[c][l] = "exited" => life'.loops[c][l] = "exited"
        /\ life'.loops[c][l] = "work" => (life.running \/ life.loops[c][l] = "work")

C29_Original ==
    life.popped = 1 =>
        \A row \in GetExistingSummonersForUpdate(store, 1000) :
            \E k \in 1..Len(life.pushed) :
                /\ life.pushed[k].puuid = row[1]
                /\ life.pushed[k].region = row[2]
                /\ life.pushed[k].priority = "Medium"

\* The Database holds summoner a, the crawler task has popped a task, and the
\* only task ever pushed is the High task of a featured game.
C29_NeverSeeded ==
    /\ life.popped = 1
    /\ SummonerExists(store, "a")
    /\ Len(life.pushed) = 1
    /\ life.pushed[1].priority = "High"
    /\ life.pushed[1].puuid = "b"

\* ------------------------------------------------------------------------
\* SpecConfig: Config::from_env on the environment of the process
\* ------------------------------------------------------------------------
\* Config::default(), the fields that from_env validates.
EnvDefaults ==
    [riot_api_key |-> <<>>,
     regions |-> <<Na1, <<"e", "u", "w", "1">>, Kr, <<"e", "u", "n", "1">>>>,
     application_limit_per_second |-> 20,
     application_limit_per_two_minutes |-> 100,
     max_concurrent_requests |-> 10,
     queue_size_limit |-> 100000]

\* `let valid_regions = [...]`
ValidRegions ==
    {Na1, <<"e", "u", "w", "1">>, <<"e", "u", "n", "1">>, Kr, <<"b", "r", "1">>,
     <<"j", "p", "1">>, <<"r", "u">>, <<"o", "c", "1">>, <<"t", "r", "1">>,
     <<"l", "a", "1">>, <<"l", "a", "2">>}

RiotKeyPrefix == <<"R", "G", "A", "P", "I", "-">>

\* str::starts_with
StartsWith(s, prefix) == Len(s) >= Len(prefix) /\ SubSeq(s, 1, Len(prefix)) = prefix

\* str::trim, for the blank
RECURSIVE TrimStr(_)
TrimStr(s) ==
    IF s # <<>> /\ Head(s) = " " THEN TrimStr(Tail(s))
    ELSE IF s # <<>> /\ s[Len(s)] = " " THEN TrimStr(SubSeq(s, 1, Len(s) - 1))
    ELSE s

\* `regions.split(',').map(|s| s.trim().to_string()).collect()`
ParseRegions(text) == [k \in 1..Len(Split(text, ",")) |-> TrimStr(Split(text, ",")[k])]

\* `if let Ok(v) = std::env::var(..) { if let Ok(limit) = v.parse() { field = limit } }`:
\* a variable that is not set or does not parse leaves the default.
NumberFromEnv(variable, default) ==
    IF variable = <<>> \/ ParseUnsigned(variable[1]) < 0 THEN default
    ELSE ParseUnsigned(variable[1])

\* The configuration before the validation: the defaults overridden by the
\* variables that are set.
Overridden(env) ==
    [riot_api_key |-> UnwrapOr(env.RIOT_API_KEY, EnvDefaults.riot_api_key),
     regions |-> IF env.REGIONS = <<>> THEN EnvDefaults.regions
                 ELSE ParseRegions(env.REGIONS[1]),
     application_limit_per_second |->
         NumberFromEnv(env.APPLICATION_LIMIT_PER_SECOND, EnvDefaults.application_limit_per_second),
     application_limit_per_two_minutes |->
         NumberFromEnv(env.APPLICATION_LIMIT_PER_TWO_MINUTES,
                       EnvDefaults.application_limit_per_two_minutes),
     max_concurrent_requests |->
         NumberFromEnv(env.MAX_CONCURRENT_REQUESTS, EnvDefaults.max_concurrent_requests),
     queue_size_limit |-> NumberFromEnv(env.QUEUE_SIZE_LIMIT, EnvDefaults.queue_size_limit)]

\* The validation, in the order of the bail! statements; "" when all pass.
Validate(cfg) ==
    IF cfg.riot_api_key = <<>> THEN "RIOT_API_KEY environment variable is required"
    ELSE IF ~StartsWith(cfg.riot_api_key, RiotKeyPrefix) THEN "RIOT_API_KEY must start with 'RGAPI-'"
    ELSE IF \E k \in 1..Len(cfg.regions) : cfg.regions[k] \notin ValidRegions
    THEN "Invalid region"
    ELSE IF cfg.application_limit_per_second = 0
    THEN "APPLICATION_LIMIT_PER_SECOND must be greater than 0"
    ELSE IF cfg.max_concurrent_requests = 0
    THEN "MAX_CONCURRENT_REQUESTS must be greater than 0"
    ELSE IF cfg.queue_size_limit = 0 THEN "QUEUE_SIZE_LIMIT must be greater than 0"
    ELSE ""

\* The values a variable of the environment may have; <<>> is not set.
KeyValues ==
    {<<>>, <<<<>>>>, <<RiotKeyPrefix>>, <<RiotKeyPrefix \o <<"k">>>>,
     <<<<"x">> \o RiotKeyPrefix>>, <<<<"r", "g", "a", "p", "i", "-", "k">>>>}

RegionValues ==
    {<<>>, <<<<>>>>, <<Na1>>, <<Na1 \o <<",", " ">> \o Kr>>, <<<<"x", "x">>>>,
     <<Na1 \o <<",">> \o <<"x", "x">>>>}

NumberValues == {<<>>, <<<<"0">>>>, <<<<"5">>>>, <<<<"x">>>>}

Environments ==
    [RIOT_API_KEY : KeyValues, REGIONS : RegionValues,
     APPLICATION_LIMIT_PER_SECOND : NumberValues,
     APPLICATION_LIMIT_PER_TWO_MINUTES : NumberValues,
     MAX_CONCURRENT_REQUESTS : NumberValues,
     QUEUE_SIZE_LIMIT : NumberValues]

InitConfig ==
    /\ now = 0
    /\ BucketUnused
    /\ LimiterUnused
    /\ ClientUnused
    /\ QueueUnused
    /\ store = NewStore
    /\ shist = NoStoreHistory
    /\ worker = NoWorker
    /\ life = NewLife
    /\ boot \in {[NoBoot EXCEPT !.env = env] : env \in Environments}
    /\ locks = NoLocks

\* Config::from_env: Ok(cfg) or the error of the first check that fails.
FromEnv(env, cfg) ==
    [env |-> env, called |-> TRUE, ok |-> Validate(cfg) = "",
     error |-> Validate(cfg), config |-> cfg]

ConfigFromEnv ==
    /\ ~boot.called
    /\ boot' = FromEnv(boot.env, Overridden(boot.env))
    /\ UNCHANGED <<now, bucketVars, limiterVars, clientVars, queueVars, store, shist, worker, life, locks>>

NextConfig == ConfigFromEnv

SpecConfig == InitConfig /\ [][NextConfig]_vars

\* What C30 calls a valid configuration.
ValidAsStated(cfg) ==
    /\ cfg.riot_api_key # <<>>
    /\ StartsWith(cfg.riot_api_key, RiotKeyPrefix)
    /\ \A k \in 1..Len(cfg.regions) : cfg.regions[k] \in ValidRegions
    /\ cfg.application_limit_per_second # 0
    /\ cfg.application_limit_per_two_minutes # 0
    /\ cfg.max_concurrent_requests # 0
    /\ cfg.queue_size_limit # 0

\* C30 (as stated): from_env rejects every configuration with a missing key, a
\* key that does not start with RGAPI-, a region outside the table or one of
\* the four limits equal to zero, and accepts every other.
C30_Original == boot.called => (boot.ok <=> ValidAsStated(boot.config))

\* APPLICATION_LIMIT_PER_TWO_MINUTES=0 with a good key and region: accepted.
C30_ZeroAccepted ==
    /\ boot.called
    /\ boot.ok
    /\ boot.config.application_limit_per_two_minutes = 0
    /\ boot.config.application_limit_per_second = 5
    /\ boot.config.regions = <<Na1, Kr>>

\* ------------------------------------------------------------------------
\* SpecBucket, further properties of try_acquire, refill and acquire
\* ------------------------------------------------------------------------

\* The token count a refill at instant t should leave, in unbounded arithmetic:
\* whole intervals only, clamped to the capacity.
RefilledTokens(b, t) ==
    IF t - b.last_refill < b.refill_interval
    THEN b.tokens
    ELSE IF b.tokens + ((t - b.last_refill) \div b.refill_interval) * b.refill_rate <= b.capacity
    THEN b.tokens + ((t - b.last_refill) \div b.refill_interval) * b.refill_rate
    ELSE b.capacity

\* A step of try_acquire / available_tokens that is not a stuttering step.
TryAcquireStep == acq.pc = "idle" /\ now' = now /\ ret'.op = "try_acquire" /\ acq' = acq

AvailableStep == acq.pc = "idle" /\ now' = now /\ ret'.op = "available_tokens"

\* C32 (every step): try_acquire(n) answers true exactly when the refilled count
\* is at least n and then leaves the refilled count less n; when it answers
\* false it leaves the refilled count; no call is left sleeping.
C32_Step ==
    TryAcquireStep =>
        /\ ret'.ok <=> RefilledTokens(bucket, now) >= ret'.n
        /\ ret'.ok => bucket'.tokens = RefilledTokens(bucket, now) - ret'.n
        /\ ~ret'.ok => bucket'.tokens = RefilledTokens(bucket, now)
        /\ acq'.pc = "idle"

\* C32 (the example): capacity 10, try_acquire(5) succeeds and leaves 5,
\* try_acquire(10) then fails and leaves 5.
C32_Example ==
    /\ TryAcquire(NewBucket(10, 10, SecondMs, 0), 5, 0).ok
    /\ TryAcquire(NewBucket(10, 10, SecondMs, 0), 5, 0).bucket.tokens = 5
    /\ ~TryAcquire(TryAcquire(NewBucket(10, 10, SecondMs, 0), 5, 0).bucket, 10, 0).ok
    /\ TryAcquire(TryAcquire(NewBucket(10, 10, SecondMs, 0), 5, 0).bucket, 10, 0).bucket.tokens = 5

\* C32: try_acquire(n) refills, then takes n tokens and answers true when the
\* refilled count is at least n, else answers false, takes nothing and does not
\* block.
C32_TryAcquire == []C32_Example /\ [][C32_Step]_vars

\* try_acquire(2) has just refused on a bucket of capacity 2 that holds one
\* token after a refill.
C32_Witness ==
    /\ ret = [op |-> "try_acquire", n |-> 2, ok |-> FALSE]
    /\ bucket.capacity = 2
    /\ bucket.tokens = 1
    /\ bucket.last_refill > 0

\* C33 (every state): a refill at the current instant changes nothing when less
\* than an interval has passed, else it leaves min(capacity, tokens +
\* floor(elapsed / I) * R) tokens and stamps the bucket with the instant.
C33_State ==
    IF now - bucket.last_refill < bucket.refill_interval
    THEN Refill(bucket, now) = bucket
    ELSE Refill(bucket, now) =
             [bucket EXCEPT !.tokens = RefilledTokens(bucket, now), !.last_refill = now]

\* C33 (every step): available_tokens, which only refills, changes the bucket
\* in just that way.
C33_Step ==
    AvailableStep =>
        IF now - bucket.last_refill < bucket.refill_interval
        THEN bucket' = bucket
        ELSE /\ bucket'.tokens = RefilledTokens(bucket, now)
             /\ bucket'.last_refill = now
             /\ bucket'.capacity = bucket.capacity
             /\ bucket'.refill_rate = bucket.refill_rate
             /\ bucket'.refill_interval = bucket.refill_interval

\* C33: refill with elapsed < I changes neither tokens nor last_refill; with
\* elapsed >= I it sets tokens to min(capacity, tokens + floor(elapsed / I) * R)
\* and last_refill to now.
C33_Refill == []C33_State /\ [][C33_Step]_vars

\* Part of an interval has passed on a bucket that is not full, and more than
\* one interval had passed at the refill before.
C33_Witness ==
    /\ ret.op = "available_tokens"
    /\ bucket.tokens < bucket.capacity
    /\ bucket.last_refill > bucket.refill_interval
    /\ now > bucket.last_refill
    /\ now - bucket.last_refill < bucket.refill_interval

\* ceil(a / b) by its definition: the least k with k * b >= a.
CeilOf(a, b) == CHOOSE k \in 0..a : k * b >= a /\ \A j \in 0..(k - 1) : j * b < a

\* C34 (every state): acquire returns an error only for n above the capacity.
C34_State ==
    (ret.op = "acquire" /\ ~ret.ok /\ bucket.refill_rate >= 1) => ret.n > bucket.capacity

\* C34 (every step): acquire(n) that cannot take at once sleeps for
\* ceil((n - tokens) / R) * I; when it wakes the call ends, and with
\* n <= capacity and R >= 1 it ends with n tokens taken from the refilled count.
C34_Step ==
    /\ (acq.pc = "idle" /\ acq'.pc = "sleeping") =>
          /\ RefilledTokens(bucket, now) < acq'.n
          /\ acq'.wake = now + CeilOf(acq'.n - RefilledTokens(bucket, now), bucket.refill_rate)
                                   * bucket.refill_interval
    /\ (acq.pc = "idle" /\ now' = now /\ ret'.op = "acquire" /\ ret' # ret) =>
          /\ ret'.ok
          /\ bucket'.tokens = RefilledTokens(bucket, now) - ret'.n
    /\ acq.pc = "sleeping" =>
          /\ now' = now => (acq'.pc = "idle" /\ now >= acq.wake /\ ret'.op = "acquire")
          /\ (now' = now /\ acq.n <= bucket.capacity) =>
                 /\ ret'.ok
                 /\ bucket'.tokens = RefilledTokens(bucket, now) - acq.n

\* C34: with R >= 1 and n <= capacity, acquire(n) succeeds after at most one
\* sleep of ceil((n - tokens) / R) * I and takes exactly n tokens; it returns
\* an error only when n is above the capacity.
C34_Acquire == []C34_State /\ [][C34_Step]_vars

\* acquire(2) slept for one interval on a bucket of rate 2 that held one token,
\* and has succeeded.
C34_Witness ==
    /\ ret = [op |-> "acquire", n |-> 2, ok |-> TRUE]
    /\ bucket.capacity = 2
    /\ bucket.refill_rate = 2
    /\ bucket.tokens = 0
    /\ bucket.last_refill = now
    /\ now >= 2 * bucket.refill_interval
    /\ acq.pc = "idle"

\* ------------------------------------------------------------------------
\* SpecWide: one TokenBucket whose capacity and refill rate reach the end of
\* the u32 range (U32 stands for 2^32)
\* ------------------------------------------------------------------------
MaxWideNow == 3

\* Capacities and rates: small, half the range, the end of the range.
WideValues == {1, 2, U32 \div 2, U32 - 2, U32 - 1}

\* `(intervals_passed as u32) * self.refill_rate` leaves the u32 range.
MulOverflows(b, t) ==
    /\ t - b.last_refill >= b.refill_interval
    /\ (((t - b.last_refill) \div b.refill_interval) % U32) * b.refill_rate >= U32

\* `self.tokens + tokens_to_add` leaves the u32 range.
AddOverflows(b, t) ==
    /\ t - b.last_refill >= b.refill_interval
    /\ b.tokens + (((((t - b.last_refill) \div b.refill_interval) % U32) * b.refill_rate) % U32) >= U32

Overflows(b, t) == MulOverflows(b, t) \/ AddOverflows(b, t)

InitWide ==
    /\ now = 0
    /\ CrawlUnused
    /\ \E c \in WideValues, r \in WideValues, i \in 1..2 : bucket = NewBucket(c, r, i, 0)
    /\ acq = Idle
    /\ grants = <<>>
    /\ ret = [op |-> "new", n |-> 0, ok |-> TRUE]
    /\ LimiterUnused
    /\ ClientUnused
    /\ QueueUnused

WideTick ==
    /\ now < MaxWideNow
    /\ ret.op # "panic"
    /\ now' = now + 1
    /\ UNCHANGED <<crawlVars, queueVars, clientVars, bucketVars, limiterVars>>

\* An arithmetic overflow in refill: the release build wraps, the debug build
\* panics with the bucket as it was.
WideOutcome(op, n, res) ==
    \/ /\ bucket' = res.bucket
       /\ ret' = [op |-> op, n |-> n, ok |-> res.ok]
    \/ /\ Overflows(bucket, now)
       /\ bucket' = bucket
       /\ ret' = [op |-> "panic", n |-> n, ok |-> FALSE]

\* bucket.try_acquire(n), for half a bucket and for a full bucket
WideTryAcquire ==
    /\ ret.op # "panic"
    /\ \E n \in {(bucket.capacity + 1) \div 2, bucket.capacity} : WideOutcome("try_acquire", n, TryAcquire(bucket, n, now))
    /\ UNCHANGED <<crawlVars, queueVars, clientVars, now, acq, grants, limiterVars>>

\* bucket.available_tokens()
WideAvailable ==
    /\ ret.op # "panic"
    /\ WideOutcome("available_tokens", AvailableTokens(bucket, now).tokens,
                   [bucket |-> AvailableTokens(bucket, now), ok |-> TRUE])
    /\ UNCHANGED <<crawlVars, queueVars, clientVars, now, acq, grants, limiterVars>>

NextWide ==
    \/ WideTick
    \/ WideTryAcquire
    \/ WideAvailable

SpecWide == InitWide /\ [][NextWide]_vars

\* C40 (as stated): for every capacity and rate of the u32 range and every
\* elapsed time, the product and the sum in refill do not overflow, and refill
\* leaves at least the tokens it found and at most the capacity.
C40_Original ==
    /\ ~Overflows(bucket, now)
    /\ Refill(bucket, now).tokens >= bucket.tokens
    /\ Refill(bucket, now).tokens <= bucket.capacity

\* A bucket built as the limiter builds it, capacity = rate = half the range,
\* full, one interval later: the sum wraps to 0 and available_tokens has
\* answered 0.
C40_Emptied ==
    /\ bucket.capacity = U32 \div 2
    /\ bucket.refill_rate = U32 \div 2
    /\ ret = [op |-> "available_tokens", n |-> 0, ok |-> TRUE]
    /\ bucket.tokens = 0
    /\ bucket.last_refill = bucket.refill_interval

\* ------------------------------------------------------------------------
\* SpecQueue, push_batch against push
\* ------------------------------------------------------------------------

\* push(task) for each task of a list, in the order of the list.
RECURSIVE PushEach(_, _)
PushEach(q, tasks) ==
    IF tasks = <<>> THEN q ELSE PushEach(Push(q, Head(tasks)), Tail(tasks))

\* The tasks of the push or push_batch call made in this step.
Pushing == SubSeq(qhist'.pushed, Len(qhist.pushed) + 1, Len(qhist'.pushed))

\* C35: a push_batch call leaves the queue that pushing its tasks one by one in
\* list order leaves: each band is what it was followed by the tasks of its
\* priority in the order of the list, and the queue has grown by the length of
\* the list.
C35_Step ==
    (qhist'.last.op = "push_batch" /\ qhist'.pushed # qhist.pushed) =>
        /\ queue' = PushEach(queue, Pushing)
        /\ TotalSize(queue') = TotalSize(queue) + Len(Pushing)
        /\ \A b \in 1..3 :
              queue'[Bands[b]] = queue[Bands[b]] \o Partition(Pushing, PriorityOf[b])

C35_BatchAsPushes == [][C35_Step]_vars

\* A batch of two High tasks was pushed behind a High task already queued.
C35_Witness ==
    /\ qhist.last.op = "push_batch"
    /\ Len(qhist.last.before.high_priority) = 1
    /\ Len(queue.high_priority) = 3
    /\ queue.high_priority[1] = qhist.last.before.high_priority[1]
    /\ queue.high_priority[2].added_at < queue.high_priority[3].added_at
    /\ Len(queue.low_priority) = 1

\* ------------------------------------------------------------------------
\* SpecWorker, matches already stored
\* ------------------------------------------------------------------------

\* The match id of this round of the loop.
ThisMatch == worker.match_ids[worker.i]

\* A request for the match was made in this step: it was ingested or its fetch
\* is among the failures.
Requested(match_id) ==
    match_id \in (worker'.ingested \cup worker'.failed) \ (worker.ingested \cup worker.failed)

\* C36: in a round of the match loop (a step of the worker), a match id whose row is in matches is
\* skipped: no request is made for it and no table changes. A match id with no
\* row, once match_exists has answered, is requested, and when the fetch and
\* its writes succeed the match row, both team rows, the ban and both
\* participant rows are in the Database.
C36_Step ==
    (worker.pc = "matches" /\ worker' # worker) =>
        /\ (\E r \in store.matches : r.match_id = ThisMatch) =>
              /\ store' = store
              /\ ~Requested(ThisMatch)
              /\ worker'.new_summoners = worker.new_summoners
        /\ ((\A r \in store.matches : r.match_id # ThisMatch)
                /\ "match_exists" \notin worker'.failed) =>
              /\ Requested(ThisMatch)
              /\ ThisMatch \in worker'.ingested =>
                    /\ \E r \in store'.matches : r.match_id = ThisMatch
                    /\ Cardinality({r \in store'.teams : r.match_id = ThisMatch}) = 2
                    /\ Cardinality({r \in store'.bans : r.match_id = ThisMatch}) = 1
                    /\ Cardinality({r \in store'.participants : r.match_id = ThisMatch}) = 2

C36_StoredSkipped == [][C36_Step]_vars

\* The list was M1, M2 with M2 stored by an earlier run: M1 was ingested, M2
\* was passed over, and the loop is over.
C36_Witness ==
    /\ worker.pc = "filter"
    /\ worker.match_ids = <<"M1", "M2">>
    /\ worker.ingested = {"M1"}
    /\ worker.failed = {}
    /\ \E r \in store.matches : r.match_id = "M2"

\* ------------------------------------------------------------------------
\* SpecStore, the other players when a player is stored
\* ------------------------------------------------------------------------

\* This step is a successful insert_summoner call.
InsertingSummoner ==
    /\ shist'.calls = shist.calls + 1
    /\ shist'.last.op = "insert_summoner"
    /\ shist'.last.ok

\* C37 (as stated): insert_summoner(p) leaves summoner_exists true for every
\* other puuid that was stored, and get_summoners_count does not decrease,
\* also for rows whose summoner_id is the empty string.
C37_Step ==
    InsertingSummoner =>
        /\ \A r \in store.summoners :
              r.puuid # shist'.last.row.puuid => SummonerExists(store', r.puuid)
        /\ GetSummonersCount(store') >= GetSummonersCount(store)

C37_Original == [][C37_Step]_vars

\* Player a was stored with an empty summoner_id, then player b with an empty
\* summoner_id: the row of a is gone and the count is still 1.
C37_Evicted ==
    /\ shist.calls = 2
    /\ shist.prev.op = "insert_summoner" /\ shist.prev.ok
    /\ shist.prev.row.puuid = "a" /\ shist.prev.row.summoner_id = ""
    /\ shist.last.op = "insert_summoner" /\ shist.last.ok
    /\ shist.last.row.puuid = "b" /\ shist.last.row.summoner_id = ""
    /\ ~SummonerExists(store, "a")
    /\ GetSummonersCount(store) = 1

\* Player b was stored with summoner_id s2 beside a; then b was stored with an
\* empty summoner_id, which removed the rows of both: the count fell from 2
\* to 1.
C37_Fewer ==
    /\ shist.last.op = "insert_summoner" /\ shist.last.ok
    /\ shist.last.row.puuid = "b" /\ shist.last.row.summoner_id = ""
    /\ shist.prev.op = "insert_summoner" /\ shist.prev.row.puuid = "b"
    /\ shist.prev.count = 2
    /\ shist.last.count = 1

\* ------------------------------------------------------------------------
\* SpecEngine, the retries of the queued tasks
\* ------------------------------------------------------------------------

\* C38: every queued task has retries <= 3, every queued task with
\* retries >= 1 is in the Low band with priority Low, and every task in the
\* High or Medium band has retries = 0.
C38_RetriesBanded ==
    /\ \A k \in 1..Len(Held(queue)) :
          /\ Held(queue)[k].retries <= RetryLimit
          /\ Held(queue)[k].retries >= 1 =>
                 /\ Held(queue)[k].priority = "Low"
                 /\ Held(queue)[k].added_at \in Serials(queue.low_priority)
                 /\ Held(queue)[k].added_at \notin
                        Serials(queue.high_priority \o queue.medium_priority)
    /\ \A k \in 1..Len(queue.high_priority) : queue.high_priority[k].retries = 0
    /\ \A k \in 1..Len(queue.medium_priority) : queue.medium_priority[k].retries = 0

\* A task seeded High has failed three times and waits in the Low band with
\* retries = 3, a fresh High task with retries = 0 is queued beside it.
C38_Witness ==
    /\ \E k \in 1..Len(queue.low_priority) :
          /\ queue.low_priority[k].retries = RetryLimit
          /\ engine.created[queue.low_priority[k].added_at].priority = "High"
    /\ \E k \in 1..Len(queue.high_priority) : queue.high_priority[k].retries = 0

\* ------------------------------------------------------------------------
\* SpecPermit, acquire_permit with tokens in every bucket
\* ------------------------------------------------------------------------

\* The bucket would give a token at time t.
HoldsToken(b, t) == TryAcquire(b, 1, t).ok

\* A bucket of the map would give a token; one that is not there yet is
\* created full by try_acquire_all.
HoldsTokenAt(m, k, t) == k \in DOMAIN m => HoldsToken(m[k], t)

\* The four buckets try_acquire_all asks for the i-th target.
AllFourHold(rl, i, t) ==
    /\ HoldsToken(rl.application_limiter_per_second, t)
    /\ HoldsToken(rl.application_limiter_per_two_minutes, t)
    /\ HoldsTokenAt(rl.method_limiters, MethodKeyOf(i), t)
    /\ HoldsTokenAt(rl.service_limiters, ServiceKeyOf(i), t)

\* This step is the beginning of an acquire_permit call.
PermitCalled == lcall'.id = lcall.id + 1 /\ lcall'.op = "acquire_permit"

\* C39 (as stated): an acquire_permit call made when each of its four buckets
\* holds a token returns Ok, whatever max_retries >= 0 is configured.
C39_Step ==
    (PermitCalled /\ AllFourHold(limiter, lcall'.target, now)) => permit'.pc = "ok"

C39_Original == [][C39_Step]_vars

\* max_retries = 0: the call has returned the error without an attempt, with
\* every bucket as full as RateLimiter::new made it.
C39_NoAttempt ==
    /\ config.max_retries = 0
    /\ lcall.op = "acquire_permit"
    /\ permit.pc = "err"
    /\ permit.results = <<>>
    /\ limiter = NewLimiter(config, 0)
    /\ AllFourHold(limiter, lcall.target, now)

\* With max_retries >= 1 the first attempt of such a call takes the permit.
C39_Attempted ==
    [][(PermitCalled /\ config.max_retries >= 1 /\ AllFourHold(limiter, lcall'.target, now)) =>
           (permit'.pc = "ok" /\ permit'.results = <<TRUE>>)]_vars

\* ------------------------------------------------------------------------
\* SpecLocks: the lock sections of the operations of the SummonerQueue, the
\* RateLimiter and the Database, run by two tasks at once
\* ------------------------------------------------------------------------
MaxLockCalls == 3

\* `let guard = lock.read().await` / `.write().await` / `.lock().unwrap()`
LockIt(lock, mode) == [do |-> "lock", lock |-> lock, mode |-> mode]

\* The guard goes out of scope.
DropIt(lock) == [do |-> "drop", lock |-> lock, mode |-> "none"]

\* A block that takes one guard and drops it at its end.
Section(lock, mode) == <<LockIt(lock, mode), DropIt(lock)>>

\* The first n locks of a list, each in a block of its own or as a temporary of
\* one statement.
RECURSIVE Sections(_, _, _)
Sections(names, n, mode) ==
    IF n = 0 THEN <<>> ELSE Sections(names, n - 1, mode) \o Section(names[n], mode)

\* push: the band of the task's priority.
PushProgram(band) == Section(BandLocks[band], "write")

\* push_batch: the bands in turn (here with tasks for each of them).
PushBatchProgram == Sections(BandLocks, 3, "write")

\* pop: the bands in turn up to the one that has a task.
PopProgram(found) == Sections(BandLocks, found, "write")

\* size with the three read guards kept to the end of the function.
SizeProgramHolding ==
    <<LockIt(BandLocks[1], "read"), LockIt(BandLocks[2], "read"), LockIt(BandLocks[3], "read"),
      DropIt(BandLocks[3]), DropIt(BandLocks[2]), DropIt(BandLocks[1])>>

\* size: `self.high_priority.read().await.len()`, the guard is a temporary.
SizeProgram == Sections(BandLocks, 3, "read")

\* clear: the three write guards are locals of the function, dropped at its
\* end in the reverse order of their declaration.
ClearProgram ==
    <<LockIt(BandLocks[1], "write"), LockIt(BandLocks[2], "write"), LockIt(BandLocks[3], "write"),
      DropIt(BandLocks[3]), DropIt(BandLocks[2]), DropIt(BandLocks[1])>>

\* remove_duplicates: remove_duplicates_from_queue for each band.
RemoveDuplicatesProgram == Sections(BandLocks, 3, "write")

\* try_acquire_all: the buckets in turn up to the one that refuses, or all four.
TryAcquireAllProgram(asked) == Sections(BucketLocks, asked, "write")

\* get_rate_limit_status: the two application buckets.
GetRateLimitStatusProgram == Sections(BucketLocks, 2, "write")

\* Database::execute and query_row: the connection for one statement.
DatabaseProgram == Section("connection", "lock")

\* The calls a task may make: the name of the operation and its lock sections.
Operations ==
    {[op |-> "push", program |-> PushProgram(band)] : band \in {1, 3}}
        \cup {[op |-> "pop", program |-> PopProgram(found)] : found \in {1, 3}}
        \cup {[op |-> "try_acquire_all", program |-> TryAcquireAllProgram(asked)] :
                  asked \in {1, 4}}
        \cup {[op |-> "push_batch", program |-> PushBatchProgram],
              [op |-> "size", program |-> SizeProgram],
              [op |-> "clear", program |-> ClearProgram],
              [op |-> "remove_duplicates", program |-> RemoveDuplicatesProgram],
              [op |-> "get_rate_limit_status", program |-> GetRateLimitStatusProgram],
              [op |-> "insert_match", program |-> DatabaseProgram]}

InitLocks ==
    /\ now = 0
    /\ BucketUnused
    /\ LimiterUnused
    /\ ClientUnused
    /\ QueueUnused
    /\ store = NewStore
    /\ shist = NoStoreHistory
    /\ worker = NoWorker
    /\ life = NewLife
    /\ boot = NoBoot
    /\ locks = NoLocks

locksRest == <<now, bucketVars, limiterVars, clientVars, queueVars, store, shist, worker, life, boot>>

\* The instruction the task is at.
Instruction(task) == task.program[task.pc]

\* The call goes on to its next instruction, or returns after the last.
Advanced(task) ==
    IF task.pc = Len(task.program)
    THEN [task EXCEPT !.op = "idle", !.program = <<>>, !.pc = 1]
    ELSE [task EXCEPT !.pc = @ + 1]

\* A task begins an operation.
LockCall(t) ==
    /\ locks.tasks[t].op = "idle"
    /\ locks.calls < MaxLockCalls
    /\ \E o \in Operations :
          locks' = [locks EXCEPT !.tasks[t].op = o.op, !.tasks[t].program = o.program,
                                 !.calls = @ + 1]
    /\ UNCHANGED locksRest

\* The task is at a `.read().await`, `.write().await` or `.lock()`.
AtLock(task) == task.op # "idle" /\ task.waiting = {} /\ Instruction(task).do = "lock"

\* The task asks for the lock and joins those waiting for it.
LockAsk(t) ==
    /\ AtLock(locks.tasks[t])
    /\ locks' = [locks EXCEPT
                    !.tasks[t].waiting = {Instruction(locks.tasks[t]).lock},
                    !.table[Instruction(locks.tasks[t]).lock].queue =
                        Append(@, [task |-> t, mode |-> Instruction(locks.tasks[t]).mode])]
    /\ UNCHANGED locksRest

\* The place of the task among those waiting for the lock (0: not waiting).
PlaceOf(l, t) ==
    IF \E k \in 1..Len(l.queue) : l.queue[k].task = t
    THEN CHOOSE k \in 1..Len(l.queue) : l.queue[k].task = t
    ELSE 0

\* tokio's RwLock hands the lock over in the order of the requests: a reader
\* when no writer holds it, a writer when nobody holds it. The Mutex of the
\* connection goes to any of those waiting.
Grantable(name, l, t, mode) ==
    /\ PlaceOf(l, t) > 0
    /\ name # "connection" => PlaceOf(l, t) = 1
    /\ l.writer = 0
    /\ mode # "read" => l.readers = {}

Without(seq, k) == [j \in 1..(Len(seq) - 1) |-> IF j < k THEN seq[j] ELSE seq[j + 1]]

Granted(l, t, mode) ==
    [writer |-> IF mode = "read" THEN 0 ELSE t,
     readers |-> IF mode = "read" THEN l.readers \cup {t} ELSE l.readers,
     queue |-> Without(l.queue, PlaceOf(l, t))]

\* The task can be given the lock it waits for.
CanTake(task, t) ==
    /\ task.op # "idle"
    /\ task.waiting # {}
    /\ Grantable(Instruction(task).lock, locks.table[Instruction(task).lock], t,
                 Instruction(task).mode)

\* The lock is given to the task, which holds the guard from here on.
LockGrant(t) ==
    /\ CanTake(locks.tasks[t], t)
    /\ locks' = [locks EXCEPT
                    !.tasks[t] = Advanced([@ EXCEPT !.waiting = {},
                                                    !.held = @ \cup {Instruction(locks.tasks[t]).lock}]),
                    !.table[Instruction(locks.tasks[t]).lock] =
                        Granted(@, t, Instruction(locks.tasks[t]).mode)]
    /\ UNCHANGED locksRest

\* The task is at the end of the scope of a guard.
AtDrop(task) == task.op # "idle" /\ task.waiting = {} /\ Instruction(task).do = "drop"

Released(l, t) ==
    [l EXCEPT !.writer = IF @ = t THEN 0 ELSE @, !.readers = @ \ {t}]

\* The guard is dropped.
LockDrop(t) ==
    /\ AtDrop(locks.tasks[t])
    /\ locks' = [locks EXCEPT
                    !.tasks[t] = Advanced([@ EXCEPT !.held = @ \ {Instruction(locks.tasks[t]).lock}]),
                    !.table[Instruction(locks.tasks[t]).lock] = Released(@, t)]
    /\ UNCHANGED locksRest

NextLocks ==
    \/ \E t \in Lockers : LockCall(t)
    \/ \E t \in Lockers : LockAsk(t)
    \/ \E t \in Lockers : LockGrant(t)
    \/ \E t \in Lockers : LockDrop(t)

SpecLocks == InitLocks /\ [][NextLocks]_vars

\* The locks a task holds or waits for.
Engaged(task) == task.held \cup task.waiting

CanStep(t) ==
    \/ AtLock(locks.tasks[t])
    \/ AtDrop(locks.tasks[t])
    \/ CanTake(locks.tasks[t], t)

\* The band locks are engaged in the order high, medium, low.
InBandOrder(task) ==
    /\ Engaged(task) \subseteq {BandLocks[k] : k \in 1..3}
    /\ \A k \in 2..3 : BandLocks[k] \in Engaged(task) => BandLocks[k - 1] \in task.held

====
